---- MODULE Spec2Model ----
(***************************************************************************)
(* Vertex-mirroring engine of BASICs_shape_key_manager: the octree spatial *)
(* index (core/octree.py), the side classifier and mirror-map builder      *)
(* (core/mirror_utils.py), shape-key mirroring (operators/mirror_ops.py)   *)
(* and raw mesh forcing (operators/mesh_mirror_ops.py).                    *)
(*                                                                         *)
(* Arithmetic.  Coordinates are integers on the dyadic grid of step        *)
(* 1/16384 (One == 16384 is the float 1.0).  Every such coordinate, every  *)
(* node centre (centre +/- size/2^k, k <= 10) and every difference of them *)
(* is exactly representable in binary floating point, so the code's        *)
(* arithmetic on these inputs is exact except for the square roots.  A     *)
(* distance is therefore carried as its square: the code compares          *)
(* non-negative distances only (<, <=, >), and each such comparison is     *)
(* equivalent to the same comparison of the squares.  float('inf') is Inf, *)
(* larger than every squared distance of the model; None is -1 (vertex     *)
(* indices are >= 0).                                                      *)
(***************************************************************************)
EXTENDS Integers, Sequences, FiniteSets, TLC

One == 16384
Inf == 2147483647
None == -1

\* Defaults of OctreeNode.__init__.
max_points_default == 10
max_depth_default == 10

Abs(a) == IF a < 0 THEN 0 - a ELSE a

Sq(a) == a * a

\* sum((query_point[j] - point[j])**2 for j in range(3))
dist_sq(p, q) == Sq(p[1] - q[1]) + Sq(p[2] - q[2]) + Sq(p[3] - q[3])

(***************************************************************************)
(* OctreeNode                                                              *)
(***************************************************************************)

\* OctreeNode.__init__; children = None is the empty sequence.
OctreeNode(center, size, max_points, depth, max_depth) ==
  [center |-> center, size |-> size, max_points |-> max_points,
   max_depth |-> max_depth, depth |-> depth, points |-> <<>>,
   vertex_indices |-> <<>>, children |-> <<>>, is_leaf |-> TRUE]

get_octant_index(self, point) ==
  (IF point[1] >= self.center[1] THEN 4 ELSE 0)
  + (IF point[2] >= self.center[2] THEN 2 ELSE 0)
  + (IF point[3] >= self.center[3] THEN 1 ELSE 0)

\* The child appended k-th (k = 0..7) by the three nested loops of subdivide:
\* x_dir, y_dir, z_dir are -1 or +1 by the bits 4, 2, 1 of k.
new_child(self, k) ==
  LET new_size == self.size \div 2
      x_dir == IF (k \div 4) % 2 = 1 THEN 1 ELSE -1
      y_dir == IF (k \div 2) % 2 = 1 THEN 1 ELSE -1
      z_dir == IF k % 2 = 1 THEN 1 ELSE -1
  IN  OctreeNode(<<self.center[1] + x_dir * new_size,
                   self.center[2] + y_dir * new_size,
                   self.center[3] + z_dir * new_size>>,
                 new_size, self.max_points, self.depth + 1, self.max_depth)

RECURSIVE OctreeNode_insert(_, _, _)
RECURSIVE reinsert_points(_, _, _, _)

\* Variants of insert_point_in_children: the first inserts into the octant
\* opposite to the point's, the second appends to the child's lists without the
\* child's own subdivision test.
insert_in_opposite_octant(self, point, vertex_idx) ==
  [self EXCEPT !.children[8 - get_octant_index(self, point)] =
                 OctreeNode_insert(@, point, vertex_idx)]

append_to_child(self, point, vertex_idx) ==
  [self EXCEPT !.children[get_octant_index(self, point) + 1] =
                 [@ EXCEPT !.points = Append(@, point),
                           !.vertex_indices = Append(@, vertex_idx)]]

\* _insert_point_in_children
insert_point_in_children(self, point, vertex_idx) ==
  LET octant == get_octant_index(self, point)
  IN  [self EXCEPT !.children[octant + 1] = OctreeNode_insert(@, point, vertex_idx)]

\* The loop "for i, point in enumerate(points)" of subdivide: the node after
\* the first n points were handed to the children, in list order.
reinsert_points(self, points, vertex_indices, n) ==
  IF n = 0 THEN self
  ELSE insert_point_in_children(reinsert_points(self, points, vertex_indices, n - 1),
                                points[n], vertex_indices[n])

\* A variant of subdivide that leaves the node's own lists as they are.
subdivide_keeping_points(self) ==
  IF ~self.is_leaf THEN self
  ELSE reinsert_points([self EXCEPT !.is_leaf = FALSE,
                                    !.children = [k \in 1..8 |-> new_child(self, k - 1)]],
                       self.points, self.vertex_indices, Len(self.points))

subdivide(self) ==
  IF ~self.is_leaf THEN self
  ELSE LET split == [self EXCEPT !.is_leaf = FALSE,
                                 !.children = [k \in 1..8 |-> new_child(self, k - 1)],
                                 !.points = <<>>,
                                 !.vertex_indices = <<>>]
       IN  reinsert_points(split, self.points, self.vertex_indices, Len(self.points))

\* A variant of insert that never subdivides.
OctreeNode_insert_flat(self, point, vertex_idx) ==
  IF self.is_leaf
  THEN [self EXCEPT !.points = Append(@, point),
                    !.vertex_indices = Append(@, vertex_idx)]
  ELSE insert_point_in_children(self, point, vertex_idx)

OctreeNode_insert(self, point, vertex_idx) ==
  IF self.is_leaf
  THEN LET added == [self EXCEPT !.points = Append(@, point),
                                 !.vertex_indices = Append(@, vertex_idx)]
       IN  IF Len(added.points) > added.max_points /\ added.depth < added.max_depth
           THEN subdivide(added)
           ELSE added
  ELSE insert_point_in_children(self, point, vertex_idx)

\* Variants of leaf_accepts that drop one conjunct of the test: the first accepts
\* the closest entry at any distance, the second any entry within max_dist.
leaf_accepts_unbounded(dist, best_dist, max_dist) == dist < best_dist

leaf_accepts_any_within(dist, best_dist, max_dist) == dist <= max_dist

\* The test of line 92 on a leaf entry: dist < best_dist and dist <= max_dist**2.
leaf_accepts(dist, best_dist, max_dist) == dist < best_dist /\ dist <= max_dist

\* The leaf loop of find_nearest from entry i; best_idx is a position in the leaf.
RECURSIVE leaf_scan(_, _, _, _, _, _)
leaf_scan(self, query_point, max_dist, i, best_dist, best_idx) ==
  IF i > Len(self.points)
  THEN IF best_idx # None THEN <<best_dist, self.vertex_indices[best_idx]>>
       ELSE <<Inf, None>>
  ELSE LET dist == dist_sq(query_point, self.points[i])
       IN  IF leaf_accepts(dist, best_dist, max_dist)
           THEN leaf_scan(self, query_point, max_dist, i + 1, dist, i)
           ELSE leaf_scan(self, query_point, max_dist, i + 1, best_dist, best_idx)

\* Lines 114-120: the squared lower bound on the distance to a child's cube.
axis_gap_sq(query_point, child, j) ==
  LET diff == Abs(query_point[j] - child.center[j]) - child.size
  IN  IF diff > 0 THEN Sq(diff) ELSE 0

min_dist_to_octant(query_point, child) ==
  axis_gap_sq(query_point, child, 1) + axis_gap_sq(query_point, child, 2)
  + axis_gap_sq(query_point, child, 3)

\* Line 109: "if max_dist > self.size", on squares.
may_search_others(max_dist, size) == max_dist > Sq(size)

RECURSIVE OctreeNode_find_nearest(_, _, _)
RECURSIVE search_other_children(_, _, _, _, _, _, _)

\* The loop over self.children of lines 111-128, from child i (0..7).
search_other_children(self, query_point, octant, i, best_dist, best_idx, max_dist) ==
  IF i > 7 THEN <<best_dist, best_idx>>
  ELSE LET child == self.children[i + 1]
       IN  IF i # octant /\ min_dist_to_octant(query_point, child) < max_dist
           THEN LET found == OctreeNode_find_nearest(child, query_point, max_dist)
                IN  IF found[1] < best_dist
                    THEN search_other_children(self, query_point, octant, i + 1,
                                               found[1], found[2], found[1])
                    ELSE search_other_children(self, query_point, octant, i + 1,
                                               best_dist, best_idx, max_dist)
           ELSE search_other_children(self, query_point, octant, i + 1,
                                      best_dist, best_idx, max_dist)

\* Returns <<squared distance, vertex index>>, or <<Inf, None>>.
OctreeNode_find_nearest(self, query_point, max_dist) ==
  IF self.is_leaf THEN leaf_scan(self, query_point, max_dist, 1, Inf, None)
  ELSE LET octant == get_octant_index(self, query_point)
           first == OctreeNode_find_nearest(self.children[octant + 1], query_point, max_dist)
           bound == IF first[1] < max_dist THEN first[1] ELSE max_dist
       IN  IF may_search_others(bound, self.size)
           THEN search_other_children(self, query_point, octant, 0,
                                      first[1], first[2], bound)
           ELSE first

(***************************************************************************)
(* Octree: root is <<>> for None, else the one-element sequence <<node>>.  *)
(***************************************************************************)

\* Octree.insert on the value of self.root; OctreeNode(point, 1.0).
Octree_insert(root, point, vertex_idx) ==
  LET r == IF root = <<>>
           THEN OctreeNode(point, One, max_points_default, 0, max_depth_default)
           ELSE root[1]
  IN  <<OctreeNode_insert(r, point, vertex_idx)>>

Octree_find_nearest(root, query_point, max_dist) ==
  IF root = <<>> THEN <<Inf, None>>
  ELSE OctreeNode_find_nearest(root[1], query_point, max_dist)

\* Reference for the claims: the linear scan over (point, label) entries, the
\* first entry of minimum squared distance within max_dist.
RECURSIVE brute_force(_, _, _, _, _)
brute_force(entries, query_point, max_dist, i, best) ==
  IF i > Len(entries) THEN best
  ELSE LET d == dist_sq(query_point, entries[i][1])
       IN  IF d <= max_dist /\ d < best[1]
           THEN brute_force(entries, query_point, max_dist, i + 1, <<d, entries[i][2]>>)
           ELSE brute_force(entries, query_point, max_dist, i + 1, best)

(***************************************************************************)
(* Vectors and dictionaries.  A vertex container (mesh.vertices or a shape *)
(* key's data) is a function from the vertex indices 0..N-1 to positions.  *)
(* A Python dict is the sequence of its <<key, value>> items in insertion  *)
(* order: assigning to a key that is present replaces its value in place.  *)
(***************************************************************************)

VAdd(a, b) == <<a[1] + b[1], a[2] + b[2], a[3] + b[3]>>

VSub(a, b) == <<a[1] - b[1], a[2] - b[2], a[3] - b[3]>>

\* Vector((-v.x, v.y, v.z))
flip_x(v) == <<0 - v[1], v[2], v[3]>>

length_sq(v) == Sq(v[1]) + Sq(v[2]) + Sq(v[3])

vertex_count(co) == Cardinality(DOMAIN co)

DictHas(d, k) == \E i \in 1..Len(d) : d[i][1] = k

\* d.get(k): None when the key is absent.
DictGet(d, k) ==
  IF DictHas(d, k) THEN d[CHOOSE i \in 1..Len(d) : d[i][1] = k][2] ELSE None

\* Variant of DictSet that keeps the value of a key that is present (setdefault).
DictSet_keep_first(d, k, v) ==
  IF DictHas(d, k) THEN d ELSE Append(d, <<k, v>>)

\* d[k] = v
DictSet(d, k, v) ==
  IF DictHas(d, k)
  THEN [i \in 1..Len(d) |-> IF d[i][1] = k THEN <<k, v>> ELSE d[i]]
  ELSE Append(d, <<k, v>>)

\* Whether value x occurs in list s.
InList(s, x) == \E i \in 1..Len(s) : s[i] = x

(***************************************************************************)
(* core/mirror_utils.py: side classification and the mirror map            *)
(***************************************************************************)

\* abs(x_coord) < center_threshold, center_threshold = 0.0001 = One/10000.
is_center(x_coord) == Abs(x_coord) * 10000 < One

\* Variant of side_of that takes only x = 0 for the center.
side_of_exact_zero(x_coord) ==
  IF x_coord = 0 THEN "center"
  ELSE IF x_coord < 0 THEN "left"
  ELSE "right"

\* The branch of lines 126-131 taken for one x coordinate.
side_of(x_coord) ==
  IF is_center(x_coord) THEN "center"
  ELSE IF x_coord < 0 THEN "left"
  ELSE "right"

\* The indices i, i+1, ..., N-1 whose side is the given one, in index order.
RECURSIVE side_list(_, _, _)
side_list(co, side, i) ==
  IF i >= vertex_count(co) THEN <<>>
  ELSE IF side_of(co[i][1]) = side THEN <<i>> \o side_list(co, side, i + 1)
  ELSE side_list(co, side, i + 1)

\* Returns <<left_vertices, right_vertices, center_vertices>>.
build_mirror_vertex_mapping(co) ==
  <<side_list(co, "left", 0), side_list(co, "right", 0), side_list(co, "center", 0)>>

\* Lines 167-174: the octree populated with the target vertices, from position i.
RECURSIVE populate_octree(_, _, _, _)
populate_octree(octree, co, target_vertices, i) ==
  IF i > Len(target_vertices) THEN octree
  ELSE populate_octree(Octree_insert(octree, co[target_vertices[i]], target_vertices[i]),
                       co, target_vertices, i + 1)

\* Variant of find_mirror_of that queries without the tolerance bound.
find_mirror_unbounded(octree, src_co, tolerance) ==
  Octree_find_nearest(octree, flip_x(src_co), Inf)

\* Lines 184-187: the query for one source vertex; tolerance is in grid units.
find_mirror_of(octree, src_co, tolerance) ==
  Octree_find_nearest(octree, flip_x(src_co), Sq(tolerance))

\* Lines 177-191: the loop over the source vertices, from position i.
RECURSIVE match_sources(_, _, _, _, _, _)
match_sources(mirror_map, octree, co, source_vertices, tolerance, i) ==
  IF i > Len(source_vertices) THEN mirror_map
  ELSE LET src_idx == source_vertices[i]
           best_match_idx == find_mirror_of(octree, co[src_idx], tolerance)[2]
       IN  match_sources(IF best_match_idx # None
                         THEN DictSet(mirror_map, src_idx, best_match_idx)
                         ELSE mirror_map,
                         octree, co, source_vertices, tolerance, i + 1)

\* Variant of build_reverse_map without the test src_idx != tgt_idx.
RECURSIVE build_reverse_map_all(_, _, _)
build_reverse_map_all(reverse_map, mirror_map, i) ==
  IF i > Len(mirror_map) THEN reverse_map
  ELSE build_reverse_map_all(DictSet(reverse_map, mirror_map[i][2], mirror_map[i][1]),
                             mirror_map, i + 1)

\* Lines 194-197: reverse_map from the items of mirror_map, from item i.
RECURSIVE build_reverse_map(_, _, _)
build_reverse_map(reverse_map, mirror_map, i) ==
  IF i > Len(mirror_map) THEN reverse_map
  ELSE LET src_idx == mirror_map[i][1]
           tgt_idx == mirror_map[i][2]
       IN  build_reverse_map(IF src_idx # tgt_idx
                             THEN DictSet(reverse_map, tgt_idx, src_idx)
                             ELSE reverse_map,
                             mirror_map, i + 1)

\* Variant of create_vertex_mirror_mapping that takes the left side as the
\* source unless from_side is R.
mapping_from_left_by_default(co, from_side, left_vertices, right_vertices, center_vertices, tolerance) ==
  LET seeded == [i \in 1..Len(center_vertices) |->
                   <<center_vertices[i], center_vertices[i]>>]
      source_vertices == IF from_side # "R" THEN left_vertices ELSE right_vertices
      target_vertices == IF from_side # "R" THEN right_vertices ELSE left_vertices
      octree == populate_octree(<<>>, co, target_vertices, 1)
      mirror_map == match_sources(seeded, octree, co, source_vertices, tolerance, 1)
  IN  [source_vertices |-> source_vertices,
       target_vertices |-> target_vertices,
       mirror_map |-> mirror_map,
       reverse_map |-> build_reverse_map(<<>>, mirror_map, 1)]

\* create_vertex_mirror_mapping
create_vertex_mirror_mapping(co, from_side, left_vertices, right_vertices, center_vertices, tolerance) ==
  LET seeded == [i \in 1..Len(center_vertices) |->
                   <<center_vertices[i], center_vertices[i]>>]
      source_vertices == IF from_side = "L" THEN left_vertices ELSE right_vertices
      target_vertices == IF from_side = "L" THEN right_vertices ELSE left_vertices
      octree == populate_octree(<<>>, co, target_vertices, 1)
      mirror_map == match_sources(seeded, octree, co, source_vertices, tolerance, 1)
  IN  [source_vertices |-> source_vertices,
       target_vertices |-> target_vertices,
       mirror_map |-> mirror_map,
       reverse_map |-> build_reverse_map(<<>>, mirror_map, 1)]

(***************************************************************************)
(* operators/mesh_mirror_ops.py: raw mesh forcing                          *)
(***************************************************************************)

\* find_mirrors_of_selected
RECURSIVE find_mirrors_of_selected(_, _, _)
find_mirrors_of_selected(selected_verts, reverse_map, i) ==
  IF i > Len(selected_verts) THEN <<>>
  ELSE LET mirror_idx == DictGet(reverse_map, selected_verts[i])
       IN  (IF mirror_idx # None THEN <<mirror_idx>> ELSE <<>>)
           \o find_mirrors_of_selected(selected_verts, reverse_map, i + 1)

\* Variant of mirror_one that copies the source position without negating x.
copy_one(co, src_idx, tgt_idx) ==
  [co EXCEPT ![tgt_idx] = co[src_idx]]

\* Lines 32-38: the write for one item src_idx -> tgt_idx of the map.
mirror_one(co, src_idx, tgt_idx) ==
  [co EXCEPT ![tgt_idx] = flip_x(co[src_idx])]

\* apply_mirror_transformation over the items of mirror_map from item i; returns
\* [co, modified_vertices].
RECURSIVE apply_mirror_transformation(_, _, _, _)
apply_mirror_transformation(co, modified_vertices, mirror_map, i) ==
  IF i > Len(mirror_map) THEN [co |-> co, modified_vertices |-> modified_vertices]
  ELSE LET src_idx == mirror_map[i][1]
           tgt_idx == mirror_map[i][2]
       IN  IF src_idx # tgt_idx
           THEN apply_mirror_transformation(mirror_one(co, src_idx, tgt_idx),
                                            modified_vertices \cup {tgt_idx},
                                            mirror_map, i + 1)
           ELSE apply_mirror_transformation(co, modified_vertices, mirror_map, i + 1)

\* abs(co.x) <= center_tolerance; center_tolerance is given in units of 0.0001.
within_center_tolerance(x_coord, center_tolerance) ==
  Abs(x_coord) * 10000 <= center_tolerance * One

\* handle_center_vertices; returns [co, modified_vertices, near_center].
handle_center_vertices(co, move_to_center, center_tolerance) ==
  LET near_center == {v_idx \in DOMAIN co :
                        within_center_tolerance(co[v_idx][1], center_tolerance)}
  IN  [co |-> IF move_to_center
              THEN [v_idx \in DOMAIN co |->
                      IF v_idx \in near_center
                      THEN <<0, co[v_idx][2], co[v_idx][3]>>
                      ELSE co[v_idx]]
              ELSE co,
       modified_vertices |-> IF move_to_center THEN near_center ELSE {},
       near_center |-> near_center]

\* Lines 205-208: the items of mirror_map whose target is in mirror_verts.
RECURSIVE filter_map(_, _, _)
filter_map(mirror_map, mirror_verts, i) ==
  IF i > Len(mirror_map) THEN <<>>
  ELSE (IF InList(mirror_verts, mirror_map[i][2]) THEN <<mirror_map[i]>> ELSE <<>>)
       \o filter_map(mirror_map, mirror_verts, i + 1)

\* Variant of failed_list that reports every source vertex, mapped or not.
failed_list_all(source_vertices, mirror_map, i) == source_vertices

\* Line 238: the source vertices that are not keys of mirror_map.
RECURSIVE failed_list(_, _, _)
failed_list(source_vertices, mirror_map, i) ==
  IF i > Len(source_vertices) THEN <<>>
  ELSE (IF ~DictHas(mirror_map, source_vertices[i]) THEN <<source_vertices[i]>> ELSE <<>>)
       \o failed_list(source_vertices, mirror_map, i + 1)

\* Lines 177-187: the direction chosen from the two direction flags.
direction_of(mirror_from_left, mirror_from_right) ==
  IF mirror_from_left /\ ~mirror_from_right THEN "L"
  ELSE IF mirror_from_right /\ ~mirror_from_left THEN "R"
  ELSE "L"

\* MESH_OT_force_mirror.execute on mesh.vertices = co.  mode is obj.mode,
\* selected_verts the selection read in edit mode.  Returns the record of the run:
\* the new vertex positions, the operator's locals and its return value.
force_mirror(co, mode, selected_verts, tolerance, fault_tolerant, move_to_center, center_tolerance, mirror_from_left, mirror_from_right) ==
  LET sides == build_mirror_vertex_mapping(co)
      from_side == direction_of(mirror_from_left, mirror_from_right)
      m == create_vertex_mirror_mapping(co, from_side, sides[1], sides[2], sides[3],
                                        tolerance)
      centered == handle_center_vertices(co, move_to_center, center_tolerance)
      mirror_verts == find_mirrors_of_selected(selected_verts, m.reverse_map, 1)
      applied ==
        IF mode = "EDIT"
        THEN IF selected_verts # <<>>
             THEN apply_mirror_transformation(
                    centered.co, {}, filter_map(m.mirror_map, mirror_verts, 1), 1)
             ELSE [co |-> centered.co, modified_vertices |-> {}]
        ELSE apply_mirror_transformation(centered.co, {}, m.mirror_map, 1)
      failed_vertices == failed_list(m.source_vertices, m.mirror_map, 1)
  IN  [name |-> "force_mirror",
       before |-> co,
       co |-> applied.co,
       mode |-> mode,
       selected_verts |-> selected_verts,
       tolerance |-> tolerance,
       fault_tolerant |-> fault_tolerant,
       move_to_center |-> move_to_center,
       center_tolerance |-> center_tolerance,
       from_side |-> from_side,
       left_vertices |-> sides[1],
       right_vertices |-> sides[2],
       center_vertices |-> sides[3],
       source_vertices |-> m.source_vertices,
       target_vertices |-> m.target_vertices,
       mirror_map |-> m.mirror_map,
       reverse_map |-> m.reverse_map,
       center_modified |-> centered.modified_vertices,
       near_center_verts |-> centered.near_center,
       modified_vertices |-> applied.modified_vertices,
       failed_vertices |-> failed_vertices,
       result |-> IF ~fault_tolerant /\ failed_vertices # <<>>
                  THEN "CANCELLED" ELSE "FINISHED"]

(***************************************************************************)
(* core/mirror_utils.py: shape-key names.  A Python string is the sequence *)
(* of its characters; None and '' are both the empty sequence (the code    *)
(* only tests these fields for truth).  from_side and to_side are "L", "R" *)
(* or "" (None).                                                           *)
(***************************************************************************)

Lower ==
  {"a", "b", "c", "d", "e", "f", "g", "h", "i", "j", "k", "l", "m",
   "n", "o", "p", "q", "r", "s", "t", "u", "v", "w", "x", "y", "z"}

Upper ==
  {"A", "B", "C", "D", "E", "F", "G", "H", "I", "J", "K", "L", "M",
   "N", "O", "P", "Q", "R", "S", "T", "U", "V", "W", "X", "Y", "Z"}

Digits == {"0", "1", "2", "3", "4", "5", "6", "7", "8", "9"}

\* [a-zA-Z0-9]
Alnum == Lower \cup Upper \cup Digits

\* [._-]
Separators == {".", "_", "-"}

EndsWith(s, t) ==
  Len(s) >= Len(t) /\ SubSeq(s, Len(s) - Len(t) + 1, Len(s)) = t

\* t in s
Contains(s, t) ==
  \E i \in 1..(Len(s) - Len(t) + 1) : SubSeq(s, i, i + Len(t) - 1) = t

\* Where $ matches: at the end of the string, and before a line feed that is
\* the last character.  No pattern character matches a line feed, so a match
\* ends before a final line feed when there is one.
before_final_newline(key_name) ==
  IF Len(key_name) >= 1 /\ key_name[Len(key_name)] = "\n"
  THEN SubSeq(key_name, 1, Len(key_name) - 1)
  ELSE key_name

\* re.match of ([a-zA-Z0-9]+)TOKEN$ or ([a-zA-Z0-9]+)[._-]TOKEN$ on key_name:
\* group(1), or the empty sequence when there is no match.  The match starts at
\* the first character and ends where $ matches, so the group is everything
\* before the suffix.
re_match(key_name, with_separator, token) ==
  LET subject == before_final_newline(key_name)
      base_len == Len(subject) - Len(token) - (IF with_separator THEN 1 ELSE 0)
  IN  IF /\ base_len >= 1
         /\ \A i \in 1..base_len : subject[i] \in Alnum
         /\ with_separator => subject[base_len + 1] \in Separators
         /\ EndsWith(subject, token)
      THEN SubSeq(subject, 1, base_len)
      ELSE <<>>

\* Lines 45-58 and 77-90: the separator found by the chain of substring tests,
\* for the side letter ("L" or "R") and the side word ("Left" or "Right").
extract_separator(key_name, letter, word) ==
  IF Contains(key_name, <<"_">> \o letter) THEN <<"_">>
  ELSE IF Contains(key_name, <<".">> \o letter) THEN <<".">>
  ELSE IF Contains(key_name, <<"-">> \o letter) THEN <<"-">>
  ELSE IF Contains(key_name, <<"_">> \o word) THEN <<"_">>
  ELSE IF Contains(key_name, <<".">> \o word) THEN <<".">>
  ELSE IF Contains(key_name, <<"-">> \o word) THEN <<"-">>
  ELSE <<>>

\* The four patterns of one side tried in order; the first that matches wins.
\* Returns <<base_name, separator>>, base_name empty when none matches.
match_side(key_name, letter, word) ==
  IF re_match(key_name, FALSE, letter) # <<>>
  THEN <<re_match(key_name, FALSE, letter), <<>> >>
  ELSE IF re_match(key_name, TRUE, letter) # <<>>
  THEN <<re_match(key_name, TRUE, letter), extract_separator(key_name, letter, word)>>
  ELSE IF re_match(key_name, FALSE, word) # <<>>
  THEN <<re_match(key_name, FALSE, word), <<>> >>
  ELSE IF re_match(key_name, TRUE, word) # <<>>
  THEN <<re_match(key_name, TRUE, word), extract_separator(key_name, letter, word)>>
  ELSE << <<>>, <<>> >>

detect_shape_key_side(key_name) ==
  LET left == match_side(key_name, <<"L">>, <<"L", "e", "f", "t">>)
      right == match_side(key_name, <<"R">>, <<"R", "i", "g", "h", "t">>)
  IN  IF left[1] # <<>>
      THEN [base_name |-> left[1], from_side |-> "L", to_side |-> "R",
            separator |-> left[2]]
      ELSE IF right[1] # <<>>
      THEN [base_name |-> right[1], from_side |-> "R", to_side |-> "L",
            separator |-> right[2]]
      ELSE [base_name |-> <<>>, from_side |-> "", to_side |-> "", separator |-> <<>>]

\* str(i) for i >= 0: the decimal digits.
DigitChar(d) ==
  CASE d = 0 -> "0" [] d = 1 -> "1" [] d = 2 -> "2" [] d = 3 -> "3" [] d = 4 -> "4"
    [] d = 5 -> "5" [] d = 6 -> "6" [] d = 7 -> "7" [] d = 8 -> "8" [] d = 9 -> "9"

RECURSIVE str_int(_)
str_int(i) ==
  IF i < 10 THEN <<DigitChar(i)>> ELSE Append(str_int(i \div 10), DigitChar(i % 10))

\* Lines 235-238: the first i >= start with new_key_name_i not in shape_keys.
RECURSIVE probe_suffix(_, _, _)
probe_suffix(new_key_name, shape_keys, i) ==
  IF (new_key_name \o <<"_">> \o str_int(i)) \in shape_keys
  THEN probe_suffix(new_key_name, shape_keys, i + 1)
  ELSE new_key_name \o <<"_">> \o str_int(i)

\* Lines 204-228: the name before collision handling.
synthesized_name(shape_key_name, pattern_info) ==
  IF pattern_info.base_name = <<>>
  THEN shape_key_name \o <<"_", "M", "i", "r", "r", "o", "r">>
  ELSE IF pattern_info.to_side = "L" /\ Contains(shape_key_name, <<"R", "i", "g", "h", "t">>)
  THEN pattern_info.base_name \o pattern_info.separator \o <<"L", "e", "f", "t">>
  ELSE IF pattern_info.to_side = "R" /\ Contains(shape_key_name, <<"L", "e", "f", "t">>)
  THEN pattern_info.base_name \o pattern_info.separator \o <<"R", "i", "g", "h", "t">>
  ELSE pattern_info.base_name \o pattern_info.separator \o <<pattern_info.to_side>>

\* A variant that appends '_Mirror' on a collision without probing further.
generate_mirrored_name_once(shape_key_name, pattern_info, shape_keys) ==
  LET new_key_name == synthesized_name(shape_key_name, pattern_info)
  IN  IF shape_keys # {} /\ new_key_name \in shape_keys
      THEN new_key_name \o <<"_", "M", "i", "r", "r", "o", "r">>
      ELSE new_key_name

\* shape_keys is the set of the names of the collection passed ({} is empty).
generate_mirrored_name(shape_key_name, pattern_info, shape_keys) ==
  LET new_key_name == synthesized_name(shape_key_name, pattern_info)
      with_mirror == new_key_name \o <<"_", "M", "i", "r", "r", "o", "r">>
  IN  IF shape_keys # {} /\ new_key_name \in shape_keys
      THEN IF with_mirror \in shape_keys
           THEN probe_suffix(with_mirror, shape_keys, 1)
           ELSE with_mirror
      ELSE new_key_name

(***************************************************************************)
(* operators/mirror_ops.py: shape-key mirroring.  A shape key is a record  *)
(* [name, interpolation, data]; key_blocks is the sequence of the object's *)
(* keys.                                                                   *)
(***************************************************************************)

\* Variant of is_undisplaced that skips only a displacement of length zero.
exactly_zero(displacement) == length_sq(displacement) = 0

\* displacement.length < 0.0001: length^2 * 10^8 < One^2, for integer length^2.
is_undisplaced(displacement) ==
  length_sq(displacement) <= (One * One - 1) \div 100000000

\* Variant of mirrored_position that adds the source displacement unflipped.
mirrored_position_unflipped(source_data, basis_data, reverse_map, tgt_idx) ==
  LET src_idx == DictGet(reverse_map, tgt_idx)
  IN  IF src_idx = None THEN <<>>
      ELSE LET displacement == VSub(source_data[src_idx], basis_data[src_idx])
           IN  IF length_sq(displacement) <= (One * One - 1) \div 100000000 THEN <<>>
               ELSE <<VAdd(basis_data[tgt_idx], displacement)>>

\* Lines 27-48 for one target vertex: the new position of tgt_idx, or None when the
\* vertex is skipped (no mapped source, or a source displaced by less than 0.0001).
mirrored_position(source_data, basis_data, reverse_map, tgt_idx) ==
  LET src_idx == DictGet(reverse_map, tgt_idx)
  IN  IF src_idx = None THEN <<>>
      ELSE LET displacement == VSub(source_data[src_idx], basis_data[src_idx])
           IN  IF is_undisplaced(displacement) THEN <<>>
               ELSE <<VAdd(basis_data[tgt_idx], flip_x(displacement))>>

\* The loop over target_vertices from position i; returns [data, mirrored_count].
RECURSIVE mirror_targets(_, _, _, _, _, _, _)
mirror_targets(data, mirrored_count, source_data, basis_data, target_vertices, reverse_map, i) ==
  IF i > Len(target_vertices) THEN [data |-> data, mirrored_count |-> mirrored_count]
  ELSE LET tgt_idx == target_vertices[i]
           new_co == mirrored_position(source_data, basis_data, reverse_map, tgt_idx)
       IN  IF new_co = <<>>
           THEN mirror_targets(data, mirrored_count, source_data, basis_data,
                               target_vertices, reverse_map, i + 1)
           ELSE mirror_targets([data EXCEPT ![tgt_idx] = new_co[1]], mirrored_count + 1,
                               source_data, basis_data, target_vertices, reverse_map,
                               i + 1)

\* Lines 17-18: the new key starts as a copy of the basis key, over the mesh's
\* vertex indices.
copy_of_basis(co, basis_data) == [i \in DOMAIN co |-> basis_data[i]]

\* mirror_shape_key; returns [new_key, mirrored_count].
mirror_shape_key(co, source_key, new_key_name, basis_key, target_vertices, reverse_map) ==
  LET done == mirror_targets(copy_of_basis(co, basis_key.data), 0, source_key.data,
                             basis_key.data, target_vertices, reverse_map, 1)
  IN  [new_key |-> [name |-> new_key_name,
                    interpolation |-> source_key.interpolation,
                    data |-> done.data],
       mirrored_count |-> done.mirrored_count]

Basis == <<"B", "a", "s", "i", "s">>

key_names(shape_keys) == {shape_keys[i].name : i \in 1..Len(shape_keys)}

\* shape_keys['Basis']: the first key of that name.
key_named(shape_keys, name) ==
  shape_keys[CHOOSE i \in 1..Len(shape_keys) :
               /\ shape_keys[i].name = name
               /\ \A j \in 1..(i - 1) : shape_keys[j].name # name]

\* SHAPEKEY_OT_mirror.execute with the key at position active (1-based; the
\* code's active_shape_key_index is active - 1).  Returns the record of the run:
\* the new key_blocks, the operator's locals and its return value.
shapekey_mirror(co, shape_keys, active, tolerance) ==
  IF Basis \notin key_names(shape_keys)
  THEN [name |-> "shapekey_mirror", key_blocks |-> shape_keys, result |-> "CANCELLED"]
  ELSE
  LET active_key == shape_keys[active]
      basis_key == key_named(shape_keys, Basis)
      pattern_info == detect_shape_key_side(active_key.name)
      new_key_name == generate_mirrored_name(active_key.name, pattern_info,
                                             key_names(shape_keys))
      sides == build_mirror_vertex_mapping(basis_key.data)
      m == create_vertex_mirror_mapping(basis_key.data, pattern_info.from_side,
                                        sides[1], sides[2], sides[3], tolerance)
      made == mirror_shape_key(co, active_key, new_key_name, basis_key,
                               m.target_vertices, m.reverse_map)
  IN  [name |-> "shapekey_mirror",
       before |-> shape_keys,
       key_blocks |-> Append(shape_keys, made.new_key),
       active |-> active,
       tolerance |-> tolerance,
       pattern_info |-> pattern_info,
       new_key_name |-> new_key_name,
       from_side |-> pattern_info.from_side,
       left_vertices |-> sides[1],
       right_vertices |-> sides[2],
       center_vertices |-> sides[3],
       source_vertices |-> m.source_vertices,
       target_vertices |-> m.target_vertices,
       mirror_map |-> m.mirror_map,
       reverse_map |-> m.reverse_map,
       mirrored_count |-> made.mirrored_count,
       result |-> "FINISHED"]

(***************************************************************************)
(* SHAPEKEY_OT_mirror_all_missing.execute.  The run is carried as a record *)
(* of the live key_blocks and the operator's lists; processed and          *)
(* decisions keep, for each key handled by the first and by the second     *)
(* loop, the locals of its iteration.                                      *)
(***************************************************************************)

\* Line 188: the keys other than Basis, from position i.
RECURSIVE keys_to_process(_, _)
keys_to_process(shape_keys, i) ==
  IF i > Len(shape_keys) THEN <<>>
  ELSE (IF shape_keys[i].name # Basis THEN <<shape_keys[i]>> ELSE <<>>)
       \o keys_to_process(shape_keys, i + 1)

\* Line 196: the test of the first pass.
is_side_identified(key) ==
  LET pattern_info == detect_shape_key_side(key.name)
  IN  pattern_info.base_name # <<>> /\ pattern_info.from_side # ""

\* Lines 194-199: the keys of keys_to_process, from position i, for which the
\* test gives identified.
RECURSIVE first_pass(_, _, _)
first_pass(keys, identified, i) ==
  IF i > Len(keys) THEN <<>>
  ELSE (IF is_side_identified(keys[i]) = identified THEN <<keys[i]>> ELSE <<>>)
       \o first_pass(keys, identified, i + 1)

side_identified_keys(keys) == first_pass(keys, TRUE, 1)

ambiguous_keys(keys) == first_pass(keys, FALSE, 1)

\* Lines 214-229: the key is skipped when its mirror exists, else its mirror is
\* appended.
side_key_done(run, key, locals, new_key_name, made) ==
  IF locals.mirror_exists
  THEN [run EXCEPT !.skipped_keys = Append(@, key.name),
                   !.processed = Append(@, locals)]
  ELSE [run EXCEPT !.key_blocks = Append(@, made.new_key),
                   !.mirrored_keys = Append(@, <<key.name, new_key_name>>),
                   !.processed = Append(@, locals)]

\* Lines 219-227: the final name, the correspondence and the mirrored key.
side_key_mirror(run, key, co, basis_key, locals, new_key_name, m) ==
  side_key_done(run, key, locals, new_key_name,
                mirror_shape_key(co, key, new_key_name, basis_key,
                                 m.target_vertices, m.reverse_map))

\* Lines 204-212: the expected name and whether a key carries it.
side_key_locals(key_name, pattern_info, expected_mirror_name, existing) ==
  [key_name |-> key_name,
   pattern_info |-> pattern_info,
   expected_mirror_name |-> expected_mirror_name,
   existing |-> existing,
   mirror_exists |-> expected_mirror_name \in existing]

side_key_named(run, key, co, basis_key, sides, tolerance, pattern_info, existing) ==
  side_key_mirror(run, key, co, basis_key,
                  side_key_locals(key.name, pattern_info,
                                  generate_mirrored_name(key.name, pattern_info, {}),
                                  existing),
                  generate_mirrored_name(key.name, pattern_info, existing),
                  create_vertex_mirror_mapping(basis_key.data, pattern_info.from_side,
                                               sides[1], sides[2], sides[3], tolerance))

\* Lines 202-229 for one key with a side.
process_side_key(run, key, co, basis_key, sides, tolerance) ==
  side_key_named(run, key, co, basis_key, sides, tolerance,
                 detect_shape_key_side(key.name), key_names(run.key_blocks))

RECURSIVE process_side_keys(_, _, _, _, _, _, _)
process_side_keys(run, keys, i, co, basis_key, sides, tolerance) ==
  IF i > Len(keys) THEN run
  ELSE process_side_keys(process_side_key(run, keys[i], co, basis_key, sides, tolerance),
                         keys, i + 1, co, basis_key, sides, tolerance)

\* displacement.length > 0.0001: length^2 * 10^8 > One^2, for integer length^2.
is_deformed(displacement) == length_sq(displacement) > (One * One) \div 100000000

\* Lines 258-275: the target vertices whose mapped source is displaced in key.
deformation_count(key, basis_key, target_vertices, reverse_map) ==
  Cardinality({k \in 1..Len(target_vertices) :
                 LET src_idx == DictGet(reverse_map, target_vertices[k])
                 IN  /\ src_idx # None
                     /\ is_deformed(VSub(key.data[src_idx], basis_key.data[src_idx]))})

\* A variant of choose_from_side that mirrors from the left on equal counts.
choose_from_side_or_equal(l_side_deformation, r_side_deformation) ==
  IF l_side_deformation >= r_side_deformation THEN "L" ELSE "R"

\* Lines 278-287.
choose_from_side(l_side_deformation, r_side_deformation) ==
  IF l_side_deformation > r_side_deformation THEN "L" ELSE "R"

\* Lines 290-298: the name of the mirror of an ambiguous key.
mirror_side_name(key_name, to_side, shape_keys) ==
  IF (key_name \o <<"_", "M", "i", "r", "r", "o", "r", "_">> \o <<to_side>>) \in shape_keys
  THEN probe_suffix(key_name \o <<"_", "M", "i", "r", "r", "o", "r", "_">> \o <<to_side>>,
                    shape_keys, 1)
  ELSE key_name \o <<"_", "M", "i", "r", "r", "o", "r", "_">> \o <<to_side>>

\* Lines 301-304: the mirrored key is appended.
ambiguous_key_done(run, key, locals, made) ==
  [run EXCEPT !.key_blocks = Append(@, made.new_key),
              !.mirrored_keys = Append(@, <<key.name, locals.new_key_name>>),
              !.decisions = Append(@, [locals EXCEPT !.mirrored_count = made.mirrored_count])]

ambiguous_key_mirror(run, key, co, basis_key, locals, chosen) ==
  ambiguous_key_done(run, key, locals,
                     mirror_shape_key(co, key, locals.new_key_name, basis_key,
                                      chosen.target_vertices, chosen.reverse_map))

\* Lines 278-298: the direction and the name.
ambiguous_key_locals(key_name, l_side_deformation, r_side_deformation, from_side, existing) ==
  [key_name |-> key_name,
   l_side_deformation |-> l_side_deformation,
   r_side_deformation |-> r_side_deformation,
   from_side |-> from_side,
   to_side |-> IF from_side = "L" THEN "R" ELSE "L",
   existing |-> existing,
   new_key_name |-> mirror_side_name(key_name, IF from_side = "L" THEN "R" ELSE "L", existing),
   mirrored_count |-> 0]

ambiguous_key_counted(run, key, co, basis_key, l, r, l_side_deformation, r_side_deformation, from_side) ==
  ambiguous_key_mirror(run, key, co, basis_key,
                       ambiguous_key_locals(key.name, l_side_deformation, r_side_deformation,
                                            from_side, key_names(run.key_blocks)),
                       IF from_side = "L" THEN l ELSE r)

ambiguous_key_chosen(run, key, co, basis_key, l, r, l_side_deformation, r_side_deformation) ==
  ambiguous_key_counted(run, key, co, basis_key, l, r, l_side_deformation, r_side_deformation,
                        choose_from_side(l_side_deformation, r_side_deformation))

\* Lines 254-275: the two counts.
ambiguous_key_mapped(run, key, co, basis_key, l, r) ==
  ambiguous_key_chosen(run, key, co, basis_key, l, r,
                       deformation_count(key, basis_key, l.target_vertices, l.reverse_map),
                       deformation_count(key, basis_key, r.target_vertices, r.reverse_map))

\* Lines 232-304 for one key without a side.
process_ambiguous_key(run, key, co, basis_key, sides, tolerance) ==
  IF \E k \in 1..Len(run.mirrored_keys) : run.mirrored_keys[k][2] = key.name
  THEN [run EXCEPT !.skipped_keys = Append(@, key.name)]
  ELSE ambiguous_key_mapped(run, key, co, basis_key,
         create_vertex_mirror_mapping(basis_key.data, "L", sides[1], sides[2], sides[3], tolerance),
         create_vertex_mirror_mapping(basis_key.data, "R", sides[1], sides[2], sides[3], tolerance))

RECURSIVE process_ambiguous_keys(_, _, _, _, _, _, _)
process_ambiguous_keys(run, keys, i, co, basis_key, sides, tolerance) ==
  IF i > Len(keys) THEN run
  ELSE process_ambiguous_keys(process_ambiguous_key(run, keys[i], co, basis_key, sides, tolerance),
                              keys, i + 1, co, basis_key, sides, tolerance)

\* Line 311: the record of a run that finished.
mirror_all_finished(shape_keys, tolerance, done) ==
  [name |-> "mirror_all_missing",
   before |-> shape_keys,
   key_blocks |-> done.key_blocks,
   tolerance |-> tolerance,
   mirrored_keys |-> done.mirrored_keys,
   skipped_keys |-> done.skipped_keys,
   processed |-> done.processed,
   decisions |-> done.decisions,
   result |-> "FINISHED"]

\* Lines 181-304: the two loops over the keys other than Basis.
mirror_all_loops(co, shape_keys, basis_key, sides, keys, tolerance) ==
  process_ambiguous_keys(
    process_side_keys([key_blocks |-> shape_keys, mirrored_keys |-> <<>>,
                       skipped_keys |-> <<>>, processed |-> <<>>, decisions |-> <<>>],
                      side_identified_keys(keys), 1, co, basis_key, sides, tolerance),
    ambiguous_keys(keys), 1, co, basis_key, sides, tolerance)

mirror_all_with_basis(co, shape_keys, basis_key, tolerance) ==
  mirror_all_finished(shape_keys, tolerance,
                      mirror_all_loops(co, shape_keys, basis_key,
                                       build_mirror_vertex_mapping(basis_key.data),
                                       keys_to_process(shape_keys, 1), tolerance))

\* The whole of execute.  Returns the record of the run.
mirror_all_missing(co, shape_keys, tolerance) ==
  IF Basis \notin key_names(shape_keys)
  THEN [name |-> "mirror_all_missing", before |-> shape_keys, key_blocks |-> shape_keys,
        result |-> "CANCELLED"]
  ELSE mirror_all_with_basis(co, shape_keys, key_named(shape_keys, Basis), tolerance)

(***************************************************************************)
(* State.  An Octree used through its own interface (root, with the        *)
(* history of what was inserted and the last query), and a mesh object     *)
(* with its shape keys and the record of the last operator run on it.      *)
(***************************************************************************)
VARIABLES root, inserted, nearest, vertices, key_blocks, tolerance, op

vars == <<root, inserted, nearest, vertices, key_blocks, tolerance, op>>

mesh_vars == <<vertices, key_blocks, tolerance, op>>

octree_vars == <<root, inserted, nearest>>

\* No operator has run.
NoOp == [name |-> "none"]

(***************************************************************************)
(* SpecOctree: an Octree() filled by insert calls and queried.             *)
(***************************************************************************)

\* Bounds of SpecOctree.
MaxInserts == 11

\* Points inserted and queried: two target positions two grid steps apart,
\* and points between and beside them.
OctreePoints == {<<100, 0, 0>>, <<98, 0, 0>>}

QueryPoints == {<<98, 0, 0>>, <<99, 0, 0>>, <<100, -1, 0>>}

\* Squared max_dist values: two grid steps, sixteen (0.001), and the default inf.
MaxDists == {4, 256, Inf}

InitOctree ==
  /\ root = <<>>
  /\ inserted = <<>>
  /\ nearest = <<>>
  /\ vertices = <<>>
  /\ key_blocks = <<>>
  /\ tolerance = 0
  /\ op = NoOp

\* octree.insert(point, vertex_idx); the label is the number of earlier inserts.
OctreeInsert(point) ==
  /\ Len(inserted) < MaxInserts
  /\ root' = Octree_insert(root, point, Len(inserted))
  /\ inserted' = Append(inserted, <<point, Len(inserted)>>)
  /\ nearest' = <<>>
  /\ UNCHANGED mesh_vars

\* octree.find_nearest(query_point, max_dist); the result is kept with its query.
OctreeFindNearest(query_point, max_dist) ==
  /\ nearest' = <<[query_point |-> query_point, max_dist |-> max_dist,
                   result |-> Octree_find_nearest(root, query_point, max_dist)]>>
  /\ UNCHANGED <<root, inserted>>
  /\ UNCHANGED mesh_vars

NextOctree ==
  \/ \E point \in OctreePoints : OctreeInsert(point)
  \/ \E query_point \in QueryPoints, max_dist \in MaxDists :
       OctreeFindNearest(query_point, max_dist)

SpecOctree == InitOctree /\ [][NextOctree]_vars

(***************************************************************************)
(* SpecNode: an octree whose root is either created by the first           *)
(* Octree.insert (root = None at the start) or constructed as              *)
(* OctreeNode(center, size, max_points, 0, max_depth) with small           *)
(* subdivision parameters, filled by up to MaxNodeInserts inserts and      *)
(* queried.  NodePoints holds the root centre, a point that the second     *)
(* subdivision separates from it, a point of another octant, and a point   *)
(* farther than 1.0 from the others.                                       *)
(***************************************************************************)

MaxNodeInserts == 4

NodePoints == {<<0, 0, 0>>, <<3, 0, 0>>, <<-3, -3, 0>>, <<20000, 0, 0>>}

\* Half-width of a constructed root: halved three times it is still positive.
NodeSize == 8

NodeMaxPoints == {1, 2}

NodeMaxDepths == {0, 1, 2, 3}

\* Squared max_dist values: two grid steps and the default inf.
NodeMaxDists == {4, Inf}

InitNode ==
  /\ \/ root = <<>>
     \/ \E max_points \in NodeMaxPoints, max_depth \in NodeMaxDepths :
          root = <<OctreeNode(<<0, 0, 0>>, NodeSize, max_points, 0, max_depth)>>
  /\ inserted = <<>>
  /\ nearest = <<>>
  /\ vertices = <<>>
  /\ key_blocks = <<>>
  /\ tolerance = 0
  /\ op = NoOp

\* insert(point, vertex_idx) on the octree; the label is the number of earlier inserts.
NodeInsert(point) ==
  /\ Len(inserted) < MaxNodeInserts
  /\ root' = Octree_insert(root, point, Len(inserted))
  /\ inserted' = Append(inserted, <<point, Len(inserted)>>)
  /\ nearest' = <<>>
  /\ UNCHANGED mesh_vars

NextNode ==
  \/ \E point \in NodePoints : NodeInsert(point)
  \/ \E query_point \in NodePoints, max_dist \in NodeMaxDists :
       OctreeFindNearest(query_point, max_dist)

SpecNode == InitNode /\ [][NextNode]_vars

(***************************************************************************)
(* Meshes.  A mesh is up to MaxVerts vertices at positions of Positions,   *)
(* or up to MaxPaddedVerts of them followed by a block of NFill distinct   *)
(* right-side vertices (with one more target the octree of the targets     *)
(* subdivides; the block lies on both sides of the plane z = 0, so that    *)
(* the first subdivision separates it), or by that block and its mirror    *)
(* image.  Positions holds a vertex on the mirror plane, one off the plane *)
(* but inside the centre threshold, one just outside it with a right       *)
(* vertex sqrt(2) grid steps from its mirror point, an exact mirror pair   *)
(* (-100 / 100), and a left vertex whose mirror point is sqrt(5) grid      *)
(* steps from the right vertex of the pair, on the other side of it along  *)
(* x and y.                                                                *)
(***************************************************************************)

MaxVerts == 3
MaxPaddedVerts == 2
NFill == 10

Positions ==
  {<<0, 0, 0>>, <<1, 0, 0>>, <<-2, 0, 0>>, <<3, 1, 0>>, <<-100, 0, 0>>,
   <<-98, -1, 0>>, <<100, 0, 0>>}

FillRight ==
  [i \in 1..NFill |-> <<200 + 40 * i, 10 * (i % 3), IF i % 2 = 0 THEN 50 ELSE -50>>]

FillLeft == [i \in 1..NFill |-> flip_x(FillRight[i])]

\* The sequences of 0..n positions drawn from set P.
Lists(P, n) == UNION {[1..k -> P] : k \in 0..n}

\* The vertex container holding the positions of sequence s at indices 0..Len(s)-1.
AsVertices(s) == [i \in 0..(Len(s) - 1) |-> s[i + 1]]

\* The x-mirror images of the positions of s, in the same order.
Mirrored(s) == [i \in 1..Len(s) |-> flip_x(s[i])]

\* The last family is perfectly symmetric: positions followed by their mirror
\* images, alone or with the symmetric block.
Meshes ==
  {AsVertices(s) : s \in Lists(Positions, MaxVerts) \ {<<>>}}
  \cup {AsVertices(s \o pad) : s \in Lists(Positions, MaxPaddedVerts),
                               pad \in {FillRight, FillRight \o FillLeft}}
  \cup {AsVertices(s \o Mirrored(s) \o pad) :
          s \in Lists(Positions, MaxPaddedVerts) \ {<<>>},
          pad \in {<<>>, FillRight \o FillLeft}}

\* Mirror tolerances in grid steps: 0.00012, 0.00098 (the default 0.001).
Tolerances == {2, 16}

\* Centre tolerances in units of 0.0001: the default 0.0001, and 0.005.
CenterTolerances == {1, 50}

\* The edit-mode selections explored: the selected indices in index order.
Selections(co) ==
  {<<>>, <<0>>} \cup (IF vertex_count(co) >= 2 THEN {<<0, 1>>} ELSE {})

\* The operator properties of MESH_OT_force_mirror with obj.mode and the selection:
\* every combination, and the properties' defaults in object mode with either
\* direction flag set.
ForceOptions(co) ==
  {o \in [mode : {"OBJECT", "EDIT"}, selected_verts : Selections(co),
          fault_tolerant : BOOLEAN, move_to_center : BOOLEAN,
          center_tolerance : CenterTolerances,
          mirror_from_left : BOOLEAN, mirror_from_right : BOOLEAN] :
     o.mode = "OBJECT" => o.selected_verts = <<>>}

DefaultForceOptions ==
  {[mode |-> "OBJECT", selected_verts |-> <<>>, fault_tolerant |-> TRUE,
    move_to_center |-> TRUE, center_tolerance |-> 1,
    mirror_from_left |-> from_left, mirror_from_right |-> ~from_left] :
     from_left \in BOOLEAN}

(***************************************************************************)
(* Actions on a mesh object.  tolerance is scene.shapekey_mirror_tolerance *)
(* (the operators run with use_custom_tolerance off).  Each behaviour runs *)
(* one operator on the mesh it starts from.                                *)
(***************************************************************************)

ForceMirror(o) ==
  /\ op = NoOp
  /\ op' = force_mirror(vertices, o.mode, o.selected_verts, tolerance,
                        o.fault_tolerant, o.move_to_center, o.center_tolerance,
                        o.mirror_from_left, o.mirror_from_right)
  /\ vertices' = op'.co
  /\ UNCHANGED <<key_blocks, tolerance>>
  /\ UNCHANGED octree_vars

\* SHAPEKEY_OT_mirror: poll needs shape keys and an active key other than the first.
ShapekeyMirror ==
  /\ op = NoOp
  /\ \E active \in 2..Len(key_blocks) :
       /\ op' = shapekey_mirror(vertices, key_blocks, active, tolerance)
       /\ key_blocks' = op'.key_blocks
  /\ UNCHANGED <<vertices, tolerance>>
  /\ UNCHANGED octree_vars

\* SHAPEKEY_OT_mirror_all_missing: poll needs more than one shape key.
MirrorAllMissing ==
  /\ op = NoOp
  /\ Len(key_blocks) > 1
  /\ op' = mirror_all_missing(vertices, key_blocks, tolerance)
  /\ key_blocks' = op'.key_blocks
  /\ UNCHANGED <<vertices, tolerance>>
  /\ UNCHANGED octree_vars

(***************************************************************************)
(* SpecForce: MESH_OT_force_mirror on a mesh without shape keys, invoked   *)
(* in object mode.                                                         *)
(***************************************************************************)

InitForce ==
  /\ root = <<>>
  /\ inserted = <<>>
  /\ nearest = <<>>
  /\ vertices \in Meshes
  /\ key_blocks = <<>>
  /\ tolerance \in Tolerances
  /\ op = NoOp

NextForce ==
  \E o \in {o \in ForceOptions(vertices) : o.mode = "OBJECT"} : ForceMirror(o)

SpecForce == InitForce /\ [][NextForce]_vars

\* SpecForceEdit: the operator invoked in edit mode, with each selection.
NextForceEdit ==
  \E o \in {o \in ForceOptions(vertices) : o.mode = "EDIT"} : ForceMirror(o)

SpecForceEdit == InitForce /\ [][NextForceEdit]_vars

(***************************************************************************)
(* Spec: a mesh with a Basis key and one more shape key, on which either   *)
(* operator runs.  The key displaces vertex i by one of Displacements      *)
(* (none, one below the 0.0001 threshold, one above it), chosen by i and   *)
(* the pattern number.  ExampleMesh and ExampleKey are the five-vertex     *)
(* example: x in {-1, -0.5, 0, 0.5, 1}, y = z = 0, the vertex at x = -1    *)
(* displaced by (0, 1, 0), tolerance 0.01 (rounded down to the grid).      *)
(***************************************************************************)

KeyPositions == {<<0, 0, 0>>, <<-100, 0, 0>>, <<-98, -1, 0>>, <<100, 0, 0>>}

KeyedMeshes == {AsVertices(s) : s \in Lists(KeyPositions, MaxVerts) \ {<<>>}}

Displacements == << <<0, 0, 0>>, <<1, 1, 0>>, <<1, 1, 1>> >>

KeyNames ==
  {<<"S", "m", "i", "l", "e", "L">>, <<"S", "m", "i", "l", "e", "_", "R">>,
   <<"B", "l", "i", "n", "k">>}

basis_key_of(co) == [name |-> Basis, interpolation |-> "KEY_LINEAR", data |-> co]

displaced_key(co, name, pattern) ==
  [name |-> name, interpolation |-> "KEY_LINEAR",
   data |-> [i \in DOMAIN co |->
               VAdd(co[i], Displacements[((i + pattern) % Len(Displacements)) + 1])]]

ExampleMesh ==
  AsVertices(<< <<0 - One, 0, 0>>, <<0 - One \div 2, 0, 0>>, <<0, 0, 0>>,
                <<One \div 2, 0, 0>>, <<One, 0, 0>> >>)

ExampleKey ==
  [name |-> <<"S", "m", "i", "l", "e", "L">>, interpolation |-> "KEY_LINEAR",
   data |-> [ExampleMesh EXCEPT ![0] = VAdd(@, <<0, One, 0>>)]]

ExampleTolerance == One \div 100

Init ==
  /\ root = <<>>
  /\ inserted = <<>>
  /\ nearest = <<>>
  /\ op = NoOp
  /\ \/ /\ vertices \in KeyedMeshes
        /\ tolerance \in Tolerances
        /\ \E name \in KeyNames, pattern \in 0..(Len(Displacements) - 1) :
             key_blocks = <<basis_key_of(vertices), displaced_key(vertices, name, pattern)>>
     \/ /\ vertices = ExampleMesh
        /\ tolerance = ExampleTolerance
        /\ key_blocks = <<basis_key_of(vertices), ExampleKey>>

Next ==
  \/ \E o \in DefaultForceOptions : ForceMirror(o)
  \/ ShapekeyMirror

Spec == Init /\ [][Next]_vars

(***************************************************************************)
(* SpecNames: detect_shape_key_side and generate_mirrored_name applied to  *)
(* a label, as SHAPEKEY_OT_mirror.execute applies them, with the names of  *)
(* the object's keys as the existing names.  A label is a base, then a     *)
(* separator, a side token and a tail, each possibly empty or not of the   *)
(* recognised kind.  The existing names are up to MaxExisting names of     *)
(* ExistingPool.                                                           *)
(***************************************************************************)

MaxExisting == 4

MirrorSuffix == <<"_", "M", "i", "r", "r", "o", "r">>

SmileR == <<"S", "m", "i", "l", "e", "R">>

NameBases ==
  {<<>>, <<"S", "m", "i", "l", "e">>, <<"R", "i", "g", "h", "t", "9">>,
   <<"L", "e", "f", "t", "E", "y", "e">>, <<"B", "l", "i", "n", "k">>,
   <<"a", "_", "b">>}

NameSeparators == {<<>>, <<"_">>, <<".">>, <<"-">>, <<" ">>}

NameTokens ==
  {<<>>, <<"L">>, <<"R">>, <<"L", "e", "f", "t">>, <<"R", "i", "g", "h", "t">>,
   <<"l">>}

NameTails == {<<>>, <<"\n">>}

Labels ==
  {b \o p \o t \o e : b \in NameBases, p \in NameSeparators, t \in NameTokens,
                      e \in NameTails}

ExistingPool ==
  <<SmileR, SmileR \o MirrorSuffix, SmileR \o MirrorSuffix \o <<"_", "1">>,
    SmileR \o MirrorSuffix \o <<"_", "2">>, SmileR \o MirrorSuffix \o <<"_", "3">>,
    <<"B", "l", "i", "n", "k">> \o MirrorSuffix>>

\* A key of the given name on a mesh without vertices.
named_key(name) == [name |-> name, interpolation |-> "KEY_LINEAR", data |-> <<>>]

\* The keys named by the entries of ExistingPool at the positions of chosen.
RECURSIVE existing_keys(_, _)
existing_keys(chosen, i) ==
  IF i > Len(ExistingPool) THEN <<>>
  ELSE (IF i \in chosen THEN <<named_key(ExistingPool[i])>> ELSE <<>>)
       \o existing_keys(chosen, i + 1)

\* Lines 97-103 of SHAPEKEY_OT_mirror.execute: the pattern and the new name.
name_mirror(key_name, shape_keys) ==
  LET pattern_info == detect_shape_key_side(key_name)
  IN  [name |-> "generate_mirrored_name",
       shape_key_name |-> key_name,
       pattern_info |-> pattern_info,
       shape_keys |-> shape_keys,
       new_key_name |-> generate_mirrored_name(key_name, pattern_info, shape_keys)]

InitNames ==
  /\ root = <<>>
  /\ inserted = <<>>
  /\ nearest = <<>>
  /\ vertices = <<>>
  /\ tolerance = 0
  /\ op = NoOp
  /\ \E chosen \in SUBSET (1..Len(ExistingPool)) :
       /\ Cardinality(chosen) <= MaxExisting
       /\ key_blocks = existing_keys(chosen, 1)

GenerateName(key_name) ==
  /\ op = NoOp
  /\ op' = name_mirror(key_name, key_names(key_blocks))
  /\ UNCHANGED <<vertices, key_blocks, tolerance>>
  /\ UNCHANGED octree_vars

NextNames == \E key_name \in Labels : GenerateName(key_name)

SpecNames == InitNames /\ [][NextNames]_vars

(***************************************************************************)
(* SpecAll: SHAPEKEY_OT_mirror_all_missing on a mesh of up to MaxKeyVerts  *)
(* vertices with a first key and the keys named by one of KeyNameLists.    *)
(* Each vertex carries one of Displacements, chosen by shift; the key at   *)
(* position j of the list displaces vertex i by what vertex i + j - 1      *)
(* carries, so the keys of a mesh differ.  The first key is Basis, or is   *)
(* renamed.                                                                *)
(***************************************************************************)

MaxKeyVerts == 2

AllMeshes == {AsVertices(s) : s \in Lists(KeyPositions, MaxKeyVerts) \ {<<>>}}

SmileL == <<"S", "m", "i", "l", "e", "L">>

LeftEyeL == <<"L", "e", "f", "t", "E", "y", "e", "L">>

LeftEyeR == <<"L", "e", "f", "t", "E", "y", "e", "R">>

Blink == <<"B", "l", "i", "n", "k">>

Blink_Mirror_L == Blink \o MirrorSuffix \o <<"_", "L">>

KeyNameLists ==
  {<<SmileL>>, <<SmileL, SmileR>>, <<SmileR, Blink>>,
   << <<"S", "m", "i", "l", "e", "_", "R", "i", "g", "h", "t">> >>,
   <<LeftEyeL>>, <<LeftEyeR, LeftEyeL>>,
   <<Blink>>, <<Blink, Blink_Mirror_L>>,
   <<Blink_Mirror_L \o <<"_", "1">>, Blink_Mirror_L, Blink>>}

shifted_key(co, name, shift, j) ==
  [name |-> name, interpolation |-> "KEY_LINEAR",
   data |-> [i \in DOMAIN co |->
               VAdd(co[i], Displacements[shift[(i + j - 1) % vertex_count(co)]])]]

keys_of(co, first_name, names, shift) ==
  <<[basis_key_of(co) EXCEPT !.name = first_name]>>
    \o [j \in 1..Len(names) |-> shifted_key(co, names[j], shift, j)]

InitAll ==
  /\ root = <<>>
  /\ inserted = <<>>
  /\ nearest = <<>>
  /\ op = NoOp
  /\ vertices \in AllMeshes
  /\ tolerance \in Tolerances
  /\ \E names \in KeyNameLists, shift \in [DOMAIN vertices -> 1..Len(Displacements)] :
       \/ key_blocks = keys_of(vertices, Basis, names, shift)
       \/ /\ names = <<SmileL>>
          /\ key_blocks = keys_of(vertices, <<"K", "e", "y">>, names, shift)

NextAll == MirrorAllMissing

SpecAll == InitAll /\ [][NextAll]_vars

(***************************************************************************)
(* SpecAgain: SHAPEKEY_OT_mirror_all_missing run again on the object a     *)
(* finished run has left, as long as the object holds at most MaxRunKeys   *)
(* keys.                                                                   *)
(***************************************************************************)

MaxRunKeys == 5

MirrorAllMissingAgain ==
  /\ op.name = "mirror_all_missing"
  /\ op.result = "FINISHED"
  /\ Len(key_blocks) <= MaxRunKeys
  /\ op' = mirror_all_missing(vertices, key_blocks, tolerance)
  /\ key_blocks' = op'.key_blocks
  /\ UNCHANGED <<vertices, tolerance>>
  /\ UNCHANGED octree_vars

NextAgain == MirrorAllMissing \/ MirrorAllMissingAgain

SpecAgain == InitAll /\ [][NextAgain]_vars

(***************************************************************************)
(* SpecMirror: SHAPEKEY_OT_mirror on a key whose name matches none of the  *)
(* patterns, on an object that may already hold keys named label + _Mirror *)
(* and label + _Mirror_Mirror.                                             *)
(***************************************************************************)

AmbiguousNames == {Blink, <<"a", "_", "b", "_", "L">>}

MirrorPool == <<Blink \o MirrorSuffix, Blink \o MirrorSuffix \o MirrorSuffix>>

\* Undisplaced keys named by the entries of MirrorPool at the positions of chosen.
RECURSIVE pool_keys(_, _, _)
pool_keys(co, chosen, i) ==
  IF i > Len(MirrorPool) THEN <<>>
  ELSE (IF i \in chosen THEN <<displaced_key(co, MirrorPool[i], 0)>> ELSE <<>>)
       \o pool_keys(co, chosen, i + 1)

InitMirror ==
  /\ root = <<>>
  /\ inserted = <<>>
  /\ nearest = <<>>
  /\ op = NoOp
  /\ vertices \in KeyedMeshes
  /\ tolerance \in Tolerances
  /\ \E name \in AmbiguousNames, pattern \in 0..(Len(Displacements) - 1),
        chosen \in SUBSET (1..Len(MirrorPool)) :
       key_blocks = <<basis_key_of(vertices), displaced_key(vertices, name, pattern)>>
                      \o pool_keys(vertices, chosen, 1)

NextMirror == ShapekeyMirror

SpecMirror == InitMirror /\ [][NextMirror]_vars

\* The label of the nearest entry is decided only when one entry attains the minimum.
unique_nearest(entries, query_point, d) ==
  Cardinality({i \in 1..Len(entries) : dist_sq(query_point, entries[i][1]) = d}) = 1

\* C1: find_nearest returns what a brute-force scan of the inserted points returns:
\* the minimum distance among the points within max_dist (and that point's label when
\* it is the only one at that distance), and (inf, None) exactly when no inserted
\* point is within max_dist.
C1_FindNearestIsBruteForce ==
  \A k \in 1..Len(nearest) :
    LET n == nearest[k]
        want == brute_force(inserted, n.query_point, n.max_dist, 1, <<Inf, None>>)
    IN  /\ n.result[1] = want[1]
        /\ (n.result[2] = None) <=> (want[2] = None)
        /\ unique_nearest(inserted, n.query_point, want[1]) => n.result[2] = want[2]

(***************************************************************************)
(* Properties of the mirror map, read from the record of the operator run. *)
(***************************************************************************)

\* The run recorded in op built a mirror map.
HasMapping ==
  \/ op.name = "force_mirror"
  \/ op.name = "shapekey_mirror" /\ op.result = "FINISHED"

\* The coordinates the map was built from: mesh.vertices before the run of
\* force mirror, the Basis key's data for shape-key mirroring.
rest_pose ==
  IF op.name = "force_mirror" THEN op.before ELSE key_named(op.before, Basis).data

ListSet(l) == {l[i] : i \in 1..Len(l)}

\* Squared distance from the mirrored point of vertex s to vertex t.
mirror_dist_sq(s, t) == dist_sq(flip_x(rest_pose[s]), rest_pose[t])

within_tolerance(s, t) == mirror_dist_sq(s, t) <= Sq(op.tolerance)

\* C2: a source vertex with at least one target vertex within tolerance of its
\* mirrored point is a key of the forward map, and is mapped to a target of
\* minimum distance to the mirrored point; so a source vertex is left out only
\* when no target is within tolerance.
C2_MappedToNearestWithinTolerance ==
  HasMapping =>
    \A s \in ListSet(op.source_vertices) :
      LET near == {t \in ListSet(op.target_vertices) : within_tolerance(s, t)}
      IN  near # {} =>
            /\ DictHas(op.mirror_map, s)
            /\ \A t \in near :
                 mirror_dist_sq(s, DictGet(op.mirror_map, s)) <= mirror_dist_sq(s, t)

\* C3: every center vertex maps to itself, and every other entry s -> t of the
\* forward map has s on the source side, t on the target side and t within
\* tolerance of the mirrored point of s.
C3_ForwardMapEntries ==
  HasMapping =>
    /\ \A c \in ListSet(op.center_vertices) : DictGet(op.mirror_map, c) = c
    /\ \A i \in 1..Len(op.mirror_map) :
         LET s == op.mirror_map[i][1]
             t == op.mirror_map[i][2]
         IN  \/ s \in ListSet(op.center_vertices) /\ t = s
             \/ /\ s \in ListSet(op.source_vertices)
                /\ t \in ListSet(op.target_vertices)
                /\ within_tolerance(s, t)

\* A center vertex is mapped to itself and a source is mapped to a target that
\* is not exactly at its mirrored point.
C3_Witness ==
  /\ HasMapping
  /\ \E i \in 1..Len(op.mirror_map) : op.mirror_map[i][1] = op.mirror_map[i][2]
  /\ \E i \in 1..Len(op.mirror_map) :
       /\ op.mirror_map[i][1] # op.mirror_map[i][2]
       /\ mirror_dist_sq(op.mirror_map[i][1], op.mirror_map[i][2]) > 0

\* C4 as stated: the forward map is injective, no two distinct source indices
\* are mapped to the same target index.
C4_ForwardMapInjective ==
  HasMapping =>
    \A i, j \in 1..Len(op.mirror_map) :
      i # j => op.mirror_map[i][2] # op.mirror_map[j][2]

\* C4: the forward map need not be injective; two distinct keys are mapped to
\* the same target only when both are source vertices whose mirrored points are
\* within tolerance of that target, so that the two sources are at most twice
\* the tolerance apart.
C4_SharedTargetOnlyWithinTolerance ==
  HasMapping =>
    \A i, j \in 1..Len(op.mirror_map) :
      (i # j /\ op.mirror_map[i][2] = op.mirror_map[j][2]) =>
        LET s1 == op.mirror_map[i][1]
            s2 == op.mirror_map[j][1]
            t == op.mirror_map[i][2]
        IN  /\ s1 \in ListSet(op.source_vertices)
            /\ s2 \in ListSet(op.source_vertices)
            /\ within_tolerance(s1, t)
            /\ within_tolerance(s2, t)
            /\ dist_sq(rest_pose[s1], rest_pose[s2]) <= 4 * Sq(op.tolerance)

\* Two source vertices at different positions are mapped to one target.
C4_Witness ==
  /\ HasMapping
  /\ \E i, j \in 1..Len(op.mirror_map) :
       /\ i # j
       /\ op.mirror_map[i][2] = op.mirror_map[j][2]
       /\ rest_pose[op.mirror_map[i][1]] # rest_pose[op.mirror_map[j][1]]

\* C5: the inverse map has no center (identity) entry, every entry t -> s of it
\* has forward[s] = t, and no two of its entries have the same source.
C5_ReverseMapEntries ==
  HasMapping =>
    /\ \A i \in 1..Len(op.reverse_map) :
         LET t == op.reverse_map[i][1]
             s == op.reverse_map[i][2]
         IN  /\ s # t
             /\ t \notin ListSet(op.center_vertices)
             /\ s \notin ListSet(op.center_vertices)
             /\ DictGet(op.mirror_map, s) = t
    /\ \A i, j \in 1..Len(op.reverse_map) :
         i # j => /\ op.reverse_map[i][1] # op.reverse_map[j][1]
                  /\ op.reverse_map[i][2] # op.reverse_map[j][2]

\* The forward map has a center entry and the inverse map is not empty.
C5_Witness ==
  /\ HasMapping
  /\ \E i \in 1..Len(op.mirror_map) : op.mirror_map[i][1] = op.mirror_map[i][2]
  /\ op.reverse_map # <<>>

\* The positions in source_vertices of the sources mapped to target t.
sources_of(t) ==
  {i \in 1..Len(op.source_vertices) : DictGet(op.mirror_map, op.source_vertices[i]) = t}

\* The source mapped to t that is last in source_vertices.
last_source_of(t) ==
  op.source_vertices[CHOOSE i \in sources_of(t) : \A j \in sources_of(t) : j <= i]

\* displacement.length >= 1e-4: (1e-4 * One)^2 lies between 2 and 3, and the
\* squared length is an integer.
AtLeastEps(displacement) == length_sq(displacement) >= 3

\* The key appended by shape-key mirroring, its source key and the Basis key.
new_key == key_blocks[Len(key_blocks)]

source_key == op.before[op.active]

basis_key == key_named(op.before, Basis)

source_displacement(s) == VSub(source_key.data[s], basis_key.data[s])

\* C6: when two or more source vertices are matched to target t, the inverse
\* map holds for t the one that is last in the source vertex list; raw mesh
\* forcing leaves t at the x-flip of that source's position, and shape-key
\* mirroring gives t the rest position plus that source's flipped displacement
\* (the rest position when that displacement is below 1e-4).
C6_LaterSourceWins ==
  HasMapping =>
    \A t \in ListSet(op.target_vertices) :
      Cardinality(sources_of(t)) >= 2 =>
        LET s == last_source_of(t)
        IN  /\ DictGet(op.reverse_map, t) = s
            /\ op.name = "force_mirror" => vertices[t] = flip_x(vertices[s])
            /\ op.name = "shapekey_mirror" =>
                 new_key.data[t] =
                   IF AtLeastEps(source_displacement(s))
                   THEN VAdd(basis_key.data[t], flip_x(source_displacement(s)))
                   ELSE basis_key.data[t]

\* Raw mesh forcing ran with two sources at different positions matched to one
\* target.
C6_Witness ==
  /\ op.name = "force_mirror"
  /\ \E t \in ListSet(op.target_vertices) :
       /\ Cardinality(sources_of(t)) >= 2
       /\ \E i \in sources_of(t) :
            op.before[op.source_vertices[i]] # op.before[last_source_of(t)]

\* The x-mirror of every vertex position is also a vertex position.
perfectly_symmetric(co) ==
  \A i \in DOMAIN co : \E j \in DOMAIN co : co[j] = flip_x(co[i])

pairwise_distinct(co) ==
  \A i, j \in DOMAIN co : i # j => co[i] # co[j]

\* The forward map built on the rest pose in the given direction.
forward_map(from_side) ==
  create_vertex_mirror_mapping(rest_pose, from_side, op.left_vertices,
                               op.right_vertices, op.center_vertices,
                               op.tolerance).mirror_map

\* Every key v of the left-to-right map is sent back to v by the right-to-left map.
round_trip ==
  LET left_to_right == forward_map("L")
      right_to_left == forward_map("R")
  IN  \A i \in 1..Len(left_to_right) :
        DictGet(right_to_left, left_to_right[i][2]) = left_to_right[i][1]

\* C7 as stated: on a perfectly symmetric rest pose the left-to-right and the
\* right-to-left maps are mutually inverse on every mapped vertex.
C7_RoundTripOnSymmetric ==
  (HasMapping /\ perfectly_symmetric(rest_pose)) => round_trip

\* C7: on a perfectly symmetric rest pose whose vertex positions are pairwise
\* distinct, the right-to-left map sends the left-to-right image of every mapped
\* vertex back to that vertex.
C7_RoundTripOnSymmetricDistinct ==
  (HasMapping /\ perfectly_symmetric(rest_pose) /\ pairwise_distinct(rest_pose))
    => round_trip

\* A symmetric rest pose of distinct positions on which a left vertex has two
\* right vertices within tolerance of its mirrored point.
C7_Witness ==
  /\ HasMapping
  /\ perfectly_symmetric(rest_pose)
  /\ pairwise_distinct(rest_pose)
  /\ \E s \in ListSet(op.left_vertices) :
       \E t1, t2 \in ListSet(op.right_vertices) :
         t1 # t2 /\ within_tolerance(s, t1) /\ within_tolerance(s, t2)

\* Shape-key mirroring ran and appended a key.
ShapekeyMirrored == op.name = "shapekey_mirror" /\ op.result = "FINISHED"

\* The target vertices with a mapped source displaced by at least 1e-4.
mirrored_targets ==
  {t \in ListSet(op.target_vertices) :
     /\ DictHas(op.reverse_map, t)
     /\ AtLeastEps(source_displacement(DictGet(op.reverse_map, t)))}

\* C8: the new key holds, at every target vertex with a mapped source displaced
\* by at least 1e-4, the rest position plus the source displacement with its x
\* component negated; mirrored_count is the number of these vertices; and on
\* the five-vertex example the vertex at x = +1 is displaced by (0, 1, 0).
C8_MirroredDisplacement ==
  ShapekeyMirrored =>
    /\ \A t \in mirrored_targets :
         new_key.data[t] =
           VAdd(basis_key.data[t],
                flip_x(source_displacement(DictGet(op.reverse_map, t))))
    /\ op.mirrored_count = Cardinality(mirrored_targets)
    /\ vertices = ExampleMesh =>
         /\ op.from_side = "L"
         /\ VSub(new_key.data[4], basis_key.data[4]) = <<0, One, 0>>

\* The five-vertex example was mirrored and one vertex was displaced.
C8_Witness ==
  /\ ShapekeyMirrored
  /\ vertices = ExampleMesh
  /\ op.mirrored_count = 1

\* C9: in the new key every vertex other than the mirrored targets is at its rest
\* position; the mesh, the rest pose, the source key and every other existing
\* key are as before, and exactly one key was added.
C9_OthersAtRest ==
  ShapekeyMirrored =>
    /\ \A v \in DOMAIN vertices :
         v \notin mirrored_targets => new_key.data[v] = basis_key.data[v]
    /\ Len(key_blocks) = Len(op.before) + 1
    /\ \A i \in 1..Len(op.before) : key_blocks[i] = op.before[i]
    /\ vertices = basis_key.data

\* A target's source is displaced by less than 1e-4 but not by zero, a source
\* vertex is displaced by at least 1e-4, and a target has no source.
C9_Witness ==
  /\ ShapekeyMirrored
  /\ \E t \in ListSet(op.target_vertices) :
       /\ DictHas(op.reverse_map, t)
       /\ ~AtLeastEps(source_displacement(DictGet(op.reverse_map, t)))
       /\ source_displacement(DictGet(op.reverse_map, t)) # <<0, 0, 0>>
  /\ \E s \in ListSet(op.source_vertices) : AtLeastEps(source_displacement(s))

\* The position of vertex v after step 2 of force mirror (the center snap).
after_center_snap(v) ==
  IF op.move_to_center /\ within_center_tolerance(op.before[v][1], op.center_tolerance)
  THEN <<0, op.before[v][2], op.before[v][3]>>
  ELSE op.before[v]

\* C10: after an object-mode run of force mirror, every entry t -> s of the
\* inverse map has vertex t at the x-flip of the final position of vertex s, and
\* every source-side vertex is where the center snap left it.
C10_TargetsAreFlippedSources ==
  (op.name = "force_mirror" /\ op.mode = "OBJECT") =>
    /\ \A i \in 1..Len(op.reverse_map) :
         vertices[op.reverse_map[i][1]] = flip_x(vertices[op.reverse_map[i][2]])
    /\ \A s \in ListSet(op.source_vertices) : vertices[s] = after_center_snap(s)

\* An object-mode run moved a target that was not at the flip of its source, and
\* snapped a source onto the mirror plane.
C10_Witness ==
  /\ op.name = "force_mirror"
  /\ op.mode = "OBJECT"
  /\ \E i \in 1..Len(op.reverse_map) :
       /\ op.before[op.reverse_map[i][1]] # flip_x(op.before[op.reverse_map[i][2]])
       /\ vertices[op.reverse_map[i][2]] # op.before[op.reverse_map[i][2]]

(***************************************************************************)
(* Properties of raw mesh forcing and of the side classifier.              *)
(***************************************************************************)

ForceMirrored == op.name = "force_mirror"

\* No target-side vertex lies within tolerance of the mirrored point of s.
no_target_within_tolerance(s) ==
  \A t \in ListSet(op.target_vertices) : ~within_tolerance(s, t)

\* C11: with fault_tolerant on, every source vertex without a target within
\* tolerance of its mirrored point is in the failed list and is, after the run,
\* where it was before the run, whatever center_tolerance and move_to_center.
C11_UnmatchedSourceFailedAndUnmoved ==
  (ForceMirrored /\ op.fault_tolerant) =>
    \A s \in ListSet(op.source_vertices) :
      no_target_within_tolerance(s) =>
        /\ InList(op.failed_vertices, s)
        /\ vertices[s] = op.before[s]

\* C12: with move_to_center on, after an object-mode run every vertex that was
\* within center_tolerance of the mirror plane has x = 0, and the vertices
\* snapped are exactly the vertices the side classifier put in center.
C12_SnappedAreTheCenterVertices ==
  (ForceMirrored /\ op.mode = "OBJECT" /\ op.move_to_center) =>
    /\ \A v \in DOMAIN op.before :
         Abs(op.before[v][1]) * 10000 <= op.center_tolerance * One
           => vertices[v][1] = 0
    /\ op.center_modified = ListSet(op.center_vertices)

\* C13: the run returns CANCELLED exactly when fault_tolerant is off and some
\* source vertex is not a key of the forward map; otherwise it returns FINISHED.
C13_CancelledIffIntolerantAndUnmapped ==
  ForceMirrored =>
    /\ op.result \in {"CANCELLED", "FINISHED"}
    /\ op.result = "CANCELLED" <=>
         /\ ~op.fault_tolerant
         /\ \E s \in ListSet(op.source_vertices) : ~DictHas(op.mirror_map, s)
    /\ \A s \in ListSet(op.source_vertices) :
         InList(op.failed_vertices, s) <=> ~DictHas(op.mirror_map, s)

\* A fault-intolerant run was cancelled.
C13_Witness ==
  /\ ForceMirrored
  /\ ~op.fault_tolerant
  /\ op.result = "CANCELLED"
  /\ op.mirror_map # <<>>

\* C14: when a fault-intolerant run ends CANCELLED, every vertex is where it was
\* before the run.
C14_CancelledLeavesMeshUnchanged ==
  (ForceMirrored /\ ~op.fault_tolerant /\ op.result = "CANCELLED") =>
    vertices = op.before

\* C20: left, right and center partition the vertex indices 0..N-1; an index is
\* in center iff |x| < 0.0001, in left iff it is not in center and x < 0, and in
\* right otherwise.
C20_SidesPartitionTheVertices ==
  HasMapping =>
    /\ Len(op.left_vertices) + Len(op.right_vertices) + Len(op.center_vertices)
         = vertex_count(rest_pose)
    /\ \A i \in DOMAIN rest_pose :
         LET x == rest_pose[i][1]
             near == Abs(x) * 10000 < One
         IN  /\ InList(op.center_vertices, i) <=> near
             /\ InList(op.left_vertices, i) <=> (~near /\ x < 0)
             /\ InList(op.right_vertices, i) <=> (~near /\ x >= 0)
    /\ ListSet(op.left_vertices) \cup ListSet(op.right_vertices)
         \cup ListSet(op.center_vertices) = DOMAIN rest_pose

\* A mesh with a left vertex, a right vertex, and a center vertex off the plane.
C20_Witness ==
  /\ HasMapping
  /\ op.left_vertices # <<>>
  /\ op.right_vertices # <<>>
  /\ \E i \in ListSet(op.center_vertices) : rest_pose[i][1] # 0

(***************************************************************************)
(* Names.                                                                  *)
(***************************************************************************)

NameGenerated == op.name = "generate_mirrored_name"

Left == <<"L", "e", "f", "t">>

Right == <<"R", "i", "g", "h", "t">>

SideTokens == {<<"L">>, Left, <<"R">>, Right}

side_of_token(token) == IF token \in {<<"L">>, Left} THEN "L" ELSE "R"

opposite_side(side) == IF side = "L" THEN "R" ELSE "L"

\* The opposite token in the same style: a letter for a letter, a word for a word.
opposite_token(token) ==
  CASE token = <<"L">> -> <<"R">>
    [] token = <<"R">> -> <<"L">>
    [] token = Left -> Right
    [] token = Right -> Left

\* The ways to read label as a non-empty alphanumeric base, then at most one
\* separator, then one side token.
sided_readings(label) ==
  {r \in [token : SideTokens, separator : {<<>>} \cup {<<c>> : c \in Separators}] :
     LET base_len == Len(label) - Len(r.separator) - Len(r.token)
     IN  /\ base_len >= 1
         /\ \A k \in 1..base_len : label[k] \in Alnum
         /\ SubSeq(label, base_len + 1, Len(label)) = r.separator \o r.token}

base_of(label, r) == SubSeq(label, 1, Len(label) - Len(r.separator) - Len(r.token))

detected_as(label, pattern_info) ==
  IF sided_readings(label) # {}
  THEN \A r \in sided_readings(label) :
         /\ pattern_info.base_name = base_of(label, r)
         /\ pattern_info.from_side = side_of_token(r.token)
         /\ pattern_info.to_side = opposite_side(side_of_token(r.token))
         /\ pattern_info.separator = r.separator
  ELSE pattern_info.base_name = <<>> /\ pattern_info.from_side = ""

\* C15: a label made of a non-empty alphanumeric base, at most one separator
\* of '_', '.', '-' and one side token of L, Left, R, Right is detected with
\* that base, the side of the token, the opposite side as to_side and the
\* separator present; every other label is detected with an empty base_name and
\* an empty from_side.
C15_DetectedExactlyTheSidedLabels ==
  NameGenerated => detected_as(op.shape_key_name, op.pattern_info)

\* The same restricted to the labels that do not end in a line feed.
C15_DetectedWithoutFinalLineFeed ==
  (NameGenerated /\ before_final_newline(op.shape_key_name) = op.shape_key_name) =>
    detected_as(op.shape_key_name, op.pattern_info)

\* C16: without collisions, an ambiguous label gets label + '_Mirror', and a
\* label with a detected side gets base_name + separator + the opposite, in the
\* same style, of the side token that ends the label, whatever the base_name
\* contains.
C16_OppositeTokenInTheSameStyle ==
  (NameGenerated /\ op.shape_keys = {}) =>
    IF op.pattern_info.base_name = <<>>
    THEN op.new_key_name = op.shape_key_name \o MirrorSuffix
    ELSE \A r \in sided_readings(op.shape_key_name) :
           op.new_key_name =
             op.pattern_info.base_name \o op.pattern_info.separator \o opposite_token(r.token)

\* The label is a non-empty prefix, one separator of '_', '.', '-' and the token.
separated_suffix(label, token) ==
  \E c \in Separators : EndsWith(label, <<c>> \o token) /\ Len(label) > Len(token) + 1

\* C24: every label that ends in one separator of '_', '.', '-' followed by L
\* or Left is detected with from_side L, and followed by R or Right with
\* from_side R, whatever precedes that suffix ('Eye_Smile_L', 'a_b_L').
C24_SeparatedSuffixDetectedAfterAnyPrefix ==
  NameGenerated =>
    \A token \in SideTokens :
      separated_suffix(op.shape_key_name, token) =>
        op.pattern_info.from_side = side_of_token(token)

\* The name generated for the label when no name is taken.
free_name == generate_mirrored_name(op.shape_key_name, op.pattern_info, {})

numbered_name(i) == free_name \o MirrorSuffix \o <<"_">> \o str_int(i)

\* C17: the generated name is not an existing name; it is the synthesized name
\* if that is free, else the synthesized name + '_Mirror' if that is free, else
\* the synthesized name + '_Mirror_' + i for the smallest free i >= 1, and that
\* i is at most the number of existing names plus one.  'SmileL' with 'SmileR'
\* existing gives 'SmileR_Mirror'.
C17_CollisionResolvedByLinearProbe ==
  NameGenerated =>
    /\ op.new_key_name \notin op.shape_keys
    /\ free_name \notin op.shape_keys => op.new_key_name = free_name
    /\ (free_name \in op.shape_keys /\ free_name \o MirrorSuffix \notin op.shape_keys) =>
         op.new_key_name = free_name \o MirrorSuffix
    /\ (free_name \in op.shape_keys /\ free_name \o MirrorSuffix \in op.shape_keys) =>
         \E i \in 1..(Cardinality(op.shape_keys) + 1) :
           /\ op.new_key_name = numbered_name(i)
           /\ \A j \in 1..(i - 1) : numbered_name(j) \in op.shape_keys
    /\ (op.shape_key_name = <<"S", "m", "i", "l", "e", "L">> /\ op.shape_keys = {SmileR}) =>
         op.new_key_name = SmileR \o MirrorSuffix

\* 'SmileL' with 'SmileR', 'SmileR_Mirror', 'SmileR_Mirror_1' and
\* 'SmileR_Mirror_2' existing: the probe stops at 3.
C17_Witness ==
  /\ NameGenerated
  /\ Cardinality(op.shape_keys) = 4
  /\ op.new_key_name = SmileR \o MirrorSuffix \o <<"_", "3">>

\* The name generated for a label when no name is taken.
mirrored_name_of(label) ==
  generate_mirrored_name(label, detect_shape_key_side(label), {})

\* C28: for a label with a detected side and no name taken, the mirrored name
\* has a detected side, the opposite one, and mirroring the mirrored name gives
\* the label back.
C28_NameMirroringIsAnInvolution ==
  (NameGenerated /\ op.pattern_info.from_side # "") =>
    /\ detect_shape_key_side(free_name).from_side = op.pattern_info.to_side
    /\ mirrored_name_of(free_name) = op.shape_key_name

(***************************************************************************)
(* Mirror all missing.                                                     *)
(***************************************************************************)

AllMirrored == op.name = "mirror_all_missing" /\ op.result = "FINISHED"

\* The opposite-side name of a label: its base, its separator and the opposite
\* of its side token (no name for a label that has no such reading).
opposite_names(label) ==
  {base_of(label, r) \o r.separator \o opposite_token(r.token) : r \in sided_readings(label)}

created_for(key_name) ==
  \E k \in 1..Len(op.mirrored_keys) : op.mirrored_keys[k][1] = key_name

\* The keys present at the start, other than Basis, with a detected side.
sided_at_start ==
  {k \in 1..Len(op.before) : op.before[k].name # Basis /\ is_side_identified(op.before[k])}

\* C18, for the keys at the start in the set keys.
mirrors_complete(keys) ==
  /\ \A k \in keys :
       /\ \A n \in opposite_names(op.before[k].name) : n \in key_names(key_blocks)
       /\ \E j \in 1..Len(op.processed) : op.processed[j].key_name = op.before[k].name
  /\ \A j \in 1..Len(op.processed) :
       (\E k \in keys : op.before[k].name = op.processed[j].key_name) =>
         \A n \in opposite_names(op.processed[j].key_name) :
           /\ created_for(op.processed[j].key_name) <=> n \notin op.processed[j].existing
           /\ InList(op.skipped_keys, op.processed[j].key_name) <=> n \in op.processed[j].existing
  /\ Len(key_blocks) >= Len(op.before)
  /\ SubSeq(key_blocks, 1, Len(op.before)) = op.before

\* C18: after mirror-all-missing, every key other than Basis that existed at
\* the start and has a detected side has a key carrying its opposite-side name;
\* a key is created for it only if no key carried that name when it was
\* processed, otherwise it is skipped; no existing key is modified or removed.
C18_EverySidedKeyHasItsMirror == AllMirrored => mirrors_complete(sided_at_start)

\* The same for the keys whose generated name is their opposite-side name.
C18_MirrorsOfWellNamedKeys ==
  AllMirrored =>
    mirrors_complete({k \in sided_at_start :
                        generate_mirrored_name(op.before[k].name,
                                               detect_shape_key_side(op.before[k].name), {})
                          \in opposite_names(op.before[k].name)})

\* The correspondence of the run from the given side.
direction_mapping(from_side) ==
  create_vertex_mirror_mapping(basis_key.data, from_side,
                               build_mirror_vertex_mapping(basis_key.data)[1],
                               build_mirror_vertex_mapping(basis_key.data)[2],
                               build_mirror_vertex_mapping(basis_key.data)[3], op.tolerance)

\* The target vertices that mirroring key_name from from_side would displace.
displaced_targets(key_name, from_side) ==
  {t \in ListSet(direction_mapping(from_side).target_vertices) :
     /\ DictHas(direction_mapping(from_side).reverse_map, t)
     /\ AtLeastEps(VSub(key_named(op.before, key_name).data[DictGet(direction_mapping(from_side).reverse_map, t)],
                        basis_key.data[DictGet(direction_mapping(from_side).reverse_map, t)]))}

side_name(key_name, to_side) == key_name \o MirrorSuffix \o <<"_", to_side>>

\* The name given to the mirror: the side name, or the side name with the
\* least free number when it is taken.
named_with_suffix(new_key_name, wanted, existing) ==
  IF wanted \notin existing THEN new_key_name = wanted
  ELSE \E i \in 1..(Cardinality(existing) + 1) :
         /\ new_key_name = wanted \o <<"_">> \o str_int(i)
         /\ new_key_name \notin existing
         /\ \A j \in 1..(i - 1) : (wanted \o <<"_">> \o str_int(j)) \in existing

\* Every key without a detected side is mirrored in the direction with strictly
\* more displaced target vertices, from tie_side when the counts are equal, and
\* its mirror is named after the side mirrored to.
ambiguous_decided(tie_side) ==
  /\ \A k \in 1..Len(op.before) :
       (op.before[k].name # Basis /\ ~is_side_identified(op.before[k])) =>
         \E j \in 1..Len(op.decisions) : op.decisions[j].key_name = op.before[k].name
  /\ \A j \in 1..Len(op.decisions) :
       LET d == op.decisions[j]
           l == Cardinality(displaced_targets(d.key_name, "L"))
           r == Cardinality(displaced_targets(d.key_name, "R"))
       IN  /\ d.l_side_deformation = l
           /\ d.r_side_deformation = r
           /\ d.from_side = (IF l > r THEN "L" ELSE IF r > l THEN "R" ELSE tie_side)
           /\ d.to_side = opposite_side(d.from_side)
           /\ d.mirrored_count = (IF d.from_side = "L" THEN l ELSE r)
           /\ named_with_suffix(d.new_key_name, side_name(d.key_name, d.to_side), d.existing)
           /\ \E k \in (Len(op.before) + 1)..Len(key_blocks) :
                /\ key_blocks[k].name = d.new_key_name
                /\ \A t \in displaced_targets(d.key_name, d.from_side) :
                     key_blocks[k].data[t] # basis_key.data[t]

\* C19 as stated: on equal counts the key is mirrored left-to-right.
C19_TiesMirrorLeftToRight == AllMirrored => ambiguous_decided("L")

\* C19: a key without a detected side is mirrored in the direction with
\* strictly more target vertices that receive a non-trivial displacement, and
\* right-to-left when the two counts are equal; its mirror is named
\* '<original>_Mirror_<to_side>', with the least free numeric suffix _1, _2, ...
\* when that name is taken.
C19_TiesMirrorRightToLeft == AllMirrored => ambiguous_decided("R")

\* A tie with displaced vertices on both sides, and a name that was taken.
C19_Witness ==
  /\ AllMirrored
  /\ \E j \in 1..Len(op.decisions) :
       /\ op.decisions[j].l_side_deformation = op.decisions[j].r_side_deformation
       /\ op.decisions[j].l_side_deformation >= 1
       /\ op.decisions[j].from_side = "R"
       /\ op.decisions[j].new_key_name = Blink_Mirror_L \o <<"_", "2">>

(***************************************************************************)
(* The octree as a data structure.                                         *)
(***************************************************************************)

is_inserted(point) == \E i \in 1..Len(inserted) : inserted[i][1] = point

\* C21: whatever was inserted, in whatever order and with whatever max_points
\* and max_depth, find_nearest of a point that was inserted returns distance 0
\* and the label of an inserted point located there.
C21_InsertedPointFoundAtZero ==
  \A k \in 1..Len(nearest) :
    is_inserted(nearest[k].query_point) =>
      /\ nearest[k].result[1] = 0
      /\ \E i \in 1..Len(inserted) :
           /\ inserted[i][1] = nearest[k].query_point
           /\ inserted[i][2] = nearest[k].result[2]

\* A query of an inserted point on a tree that has subdivided.
C21_Witness ==
  /\ root # <<>>
  /\ ~root[1].is_leaf
  /\ \E k \in 1..Len(nearest) :
       /\ is_inserted(nearest[k].query_point)
       /\ nearest[k].result[1] = 0

\* The nodes of the tree under node, node included.
RECURSIVE nodes_of(_)
nodes_of(node) ==
  {node} \cup UNION {nodes_of(node.children[k]) : k \in 1..Len(node.children)}

all_nodes == IF root = <<>> THEN {} ELSE nodes_of(root[1])

\* C22: a leaf at depth < max_depth holds at most max_points entries, no node
\* is deeper than max_depth, and a node at depth max_depth is a leaf.
C22_SubdivisionBounds ==
  \A n \in all_nodes :
    /\ (n.is_leaf /\ n.depth < n.max_depth) => Len(n.points) <= n.max_points
    /\ n.depth <= n.max_depth
    /\ n.depth = n.max_depth => n.is_leaf

\* A leaf at depth max_depth, below the root, that holds more than max_points.
C22_Witness ==
  \E n \in all_nodes :
    /\ n.depth = n.max_depth
    /\ n.depth >= 2
    /\ Len(n.points) > n.max_points

\* The entries stored in the leaves under node, in child order.
RECURSIVE leaf_entries(_)
RECURSIVE leaf_entries_from(_, _)
leaf_entries_from(node, k) ==
  IF k > Len(node.children) THEN <<>>
  ELSE leaf_entries(node.children[k]) \o leaf_entries_from(node, k + 1)

leaf_entries(node) ==
  IF node.is_leaf
  THEN [i \in 1..Len(node.points) |-> <<node.points[i], node.vertex_indices[i]>>]
  ELSE leaf_entries_from(node, 1)

\* Two lists hold the same entries the same number of times.
same_multiset(a, b) ==
  /\ Len(a) = Len(b)
  /\ \A e \in ListSet(a) \cup ListSet(b) :
       Cardinality({i \in 1..Len(a) : a[i] = e}) = Cardinality({i \in 1..Len(b) : b[i] = e})

\* C23: a node is a leaf without children or an internal node with exactly 8
\* children and no entries of its own; points and vertex_indices have the same
\* length; the entries of the leaves are the inserted entries, each as often as
\* it was inserted.
C23_LeavesHoldTheInsertedEntries ==
  /\ \A n \in all_nodes :
       /\ n.is_leaf => n.children = <<>>
       /\ ~n.is_leaf => (Len(n.children) = 8 /\ n.points = <<>> /\ n.vertex_indices = <<>>)
       /\ Len(n.points) = Len(n.vertex_indices)
  /\ root = <<>> => inserted = <<>>
  /\ root # <<>> => same_multiset(leaf_entries(root[1]), inserted)

\* A tree that subdivided twice and holds the same point under two labels.
C23_Witness ==
  /\ \E n \in all_nodes : n.depth >= 2
  /\ \E i, j \in 1..Len(inserted) : i # j /\ inserted[i][1] = inserted[j][1]

abs_diff(a, b) == IF a >= b THEN a - b ELSE b - a

inside_cube(point, node) ==
  \A axis \in 1..3 : abs_diff(point[axis], node.center[axis]) <= node.size

\* The root was created by Octree.insert: a cube of half-width 1.0 centred on
\* the first inserted point.
root_from_first_insert ==
  /\ root # <<>>
  /\ inserted # <<>>
  /\ root[1].size = One
  /\ root[1].center = inserted[1][1]

\* C26: in an octree populated through Octree.insert alone, every stored
\* point lies inside the cube (centre +/- half-width on each axis) of the leaf
\* that holds it.
C26_StoredPointsInsideTheirLeaf ==
  root_from_first_insert =>
    \A n \in all_nodes :
      \A k \in 1..Len(n.points) : inside_cube(n.points[k], n)

coincident ==
  /\ inserted # <<>>
  /\ \A i \in 1..Len(inserted) : inserted[i][1] = inserted[1][1]

holding_nodes == {n \in all_nodes : n.points # <<>>}

\* C27: every insert returns, also when more than max_points identical points
\* are inserted: the subdivisions cascade through at most max_depth levels
\* (one subdivided node per level, 1 + 8 * max_depth nodes in all) and the
\* points then accumulate in a single leaf at depth max_depth.
C27_CoincidentPointsEndInOneDeepLeaf ==
  (root # <<>> /\ coincident /\ Len(inserted) > root[1].max_points) =>
    /\ \E n \in holding_nodes :
         /\ holding_nodes = {n}
         /\ n.is_leaf
         /\ n.depth = n.max_depth
         /\ Len(n.points) = Len(inserted)
    /\ Cardinality(all_nodes) = 1 + 8 * root[1].max_depth

C27_Witness ==
  /\ root # <<>>
  /\ coincident
  /\ Len(inserted) > root[1].max_points + 1
  /\ root[1].max_depth >= 2
  /\ \E n \in holding_nodes : n.depth = n.max_depth /\ Len(n.points) = Len(inserted)

(***************************************************************************)
(* SHAPEKEY_OT_mirror on a key without a detected side.                    *)
(***************************************************************************)

AmbiguousMirrored == ShapekeyMirrored /\ op.pattern_info.from_side = ""

mirror_label == source_key.name \o MirrorSuffix

\* name is label + '_Mirror' if that is free, else that + '_Mirror' if free,
\* else that + '_Mirror_' + i for the least free i >= 1.
named_with_collision_suffix(name, taken) ==
  IF mirror_label \notin taken THEN name = mirror_label
  ELSE IF mirror_label \o MirrorSuffix \notin taken
  THEN name = mirror_label \o MirrorSuffix
  ELSE \E i \in 1..(Cardinality(taken) + 1) :
         /\ name = mirror_label \o MirrorSuffix \o <<"_">> \o str_int(i)
         /\ name \notin taken
         /\ \A j \in 1..(i - 1) :
              mirror_label \o MirrorSuffix \o <<"_">> \o str_int(j) \in taken

\* C30: run on a key whose name has no detected side, SHAPEKEY_OT_mirror
\* appends one key named label + '_Mirror' (with the collision suffixes), takes
\* the vertices right of the centre band as sources and those left of it as
\* targets, and writes the x-flipped displacement of the right-side sources to
\* the left-side targets only, wherever the key is displaced.
C30_AmbiguousKeyMirrorsRightToLeft ==
  AmbiguousMirrored =>
    /\ Len(key_blocks) = Len(op.before) + 1
    /\ new_key.name = op.new_key_name
    /\ new_key.name \notin key_names(op.before)
    /\ named_with_collision_suffix(new_key.name, key_names(op.before))
    /\ ListSet(op.source_vertices) =
         {v \in DOMAIN vertices : ~is_center(vertices[v][1]) /\ vertices[v][1] > 0}
    /\ ListSet(op.target_vertices) =
         {v \in DOMAIN vertices : ~is_center(vertices[v][1]) /\ vertices[v][1] < 0}
    /\ \A i \in 1..Len(op.reverse_map) :
         vertices[op.reverse_map[i][1]][1] < 0 /\ vertices[op.reverse_map[i][2]][1] > 0
    /\ \A t \in mirrored_targets :
         new_key.data[t] =
           VAdd(basis_key.data[t], flip_x(source_displacement(DictGet(op.reverse_map, t))))
    /\ \A v \in DOMAIN vertices :
         v \notin mirrored_targets => new_key.data[v] = basis_key.data[v]

\* The key is displaced on a left vertex only, its right-side mirror is mapped
\* to that vertex, nothing is mirrored, and the name needed a number.
C30_Witness ==
  /\ AmbiguousMirrored
  /\ op.new_key_name = Blink \o MirrorSuffix \o MirrorSuffix \o <<"_", "1">>
  /\ op.mirrored_count = 0
  /\ \E t \in ListSet(op.target_vertices) :
       /\ DictHas(op.reverse_map, t)
       /\ AtLeastEps(source_displacement(t))
       /\ new_key.data[t] = basis_key.data[t]

(***************************************************************************)
(* MESH_OT_force_mirror in edit mode.                                      *)
(***************************************************************************)

EditSelected ==
  op.name = "force_mirror" /\ op.mode = "EDIT" /\ op.selected_verts # <<>>

\* The entries t -> s of the inverse map with s or t selected, as <<s, t>>.
selected_pairs ==
  {<<op.reverse_map[i][2], op.reverse_map[i][1]>> : i \in
     {i \in 1..Len(op.reverse_map) :
        \/ op.reverse_map[i][1] \in ListSet(op.selected_verts)
        \/ op.reverse_map[i][2] \in ListSet(op.selected_verts)}}

\* C25: after an edit-mode run of force mirror with a non-empty selection,
\* for every selected vertex in a mapped pair (s, t) vertex t is at the x-flip
\* of vertex s, and every vertex that is neither in the centre band nor in a
\* pair with a selected vertex is where it was.
C25_MirrorsOfSelectedAreFlipped ==
  EditSelected =>
    /\ \A pair \in selected_pairs : vertices[pair[2]] = flip_x(vertices[pair[1]])
    /\ \A v \in DOMAIN vertices :
         (/\ ~within_center_tolerance(op.before[v][1], op.center_tolerance)
          /\ \A pair \in selected_pairs : v # pair[1] /\ v # pair[2])
           => vertices[v] = op.before[v]

\* Edit-mode runs with a selection leave every vertex outside the centre band
\* where it was.
EditRunMovesNothingOffCentre ==
  EditSelected =>
    \A v \in DOMAIN vertices :
      ~within_center_tolerance(op.before[v][1], op.center_tolerance) =>
        vertices[v] = op.before[v]

(***************************************************************************)
(* SHAPEKEY_OT_mirror_all_missing run twice.                               *)
(***************************************************************************)

\* C29: a run of mirror all missing that follows a finished run on the same
\* object creates no shape key.
C29_SecondRunCreatesNoKey ==
  [][(AllMirrored /\ op'.name = "mirror_all_missing") => key_blocks' = key_blocks]_vars

====
